---- MODULE Spec2Model ----
(***************************************************************************)
(* OptionsTaxHub: FIFO lot aggregation (csv_parser.py), the wash-sale      *)
(* engine (wash_sale.py), the tax engine (tax_engine.py), the harvesting   *)
(* engine (harvesting.py), the data handed to the advisor (ai_advisor.py)  *)
(* and the price cache (price_service.py).                                 *)
(*                                                                         *)
(* Dates are day numbers, so timedelta(days=n) is +n.  Money is counted in *)
(* mills (tenths of a cent) so that round(x, 2) is observable; quantities  *)
(* are whole units.  Values the code holds as quotients (a per-share       *)
(* adjustment, a prorated loss) are exact fractions [n, d].                *)
(***************************************************************************)
EXTENDS Integers, Sequences, FiniteSets, TLC

VARIABLES
    transactions,       \* the list[Transaction] handed to the functions
    pc,                 \* position in the analysis
    sorted_txns,        \* transactions_to_tax_lots: sorted_txns
    idx,                \* index of the transaction the for loop is at
    open_lots,          \* dict symbol -> list of open lots
    key_order,          \* insertion order of the keys of open_lots
    remaining_to_sell,  \* _close_lots_fifo: remaining_to_sell
    warnings,           \* warnings list
    tax_lots,           \* the returned / adjusted list of lots
    buys_sorted,        \* detect_wash_sales: buys_sorted
    sells_sorted,       \* detect_wash_sales: sells_sorted
    sell_idx,           \* index of the sell the detection loop is at
    wash_sale_flags,    \* detect_wash_sales: wash_sale_flags
    flag_idx,           \* adjust_lots_for_wash_sales: index of the flag
    tax_profile,        \* the TaxProfile handed to the tax and harvesting engines
    ai_suggestions,     \* the advisor's dict, or None
    today,              \* date.today(), the default reference date
    suggestions,        \* generate_suggestions: suggestions
    args,               \* arguments of a function that is called by itself
    result,             \* what that function returned
    price_cache,        \* price_service.py: _price_cache, symbol -> (price, timestamp)
    clock,              \* time.time(), in seconds
    calls               \* history: the calls made to the price service so far

vars == <<transactions, pc, sorted_txns, idx, open_lots, key_order,
          remaining_to_sell, warnings, tax_lots, buys_sorted, sells_sorted,
          sell_idx, wash_sale_flags, flag_idx, tax_profile, ai_suggestions,
          today, suggestions, args, result, price_cache, clock, calls>>

aggVars == <<sorted_txns, idx, open_lots, key_order, remaining_to_sell,
             warnings>>

washVars == <<buys_sorted, sells_sorted, sell_idx, wash_sale_flags, flag_idx>>

priceVars == <<price_cache, clock, calls>>

harvestVars == <<tax_profile, ai_suggestions, today, suggestions, args, result,
                 priceVars>>

\* Optional values: None, or Some(v)
None == << >>

Some(v) == <<v>>

\* models.py TaxProfile: the defaults of the fields
DefaultProfile ==
    [filing_status |-> "single", estimated_annual_income |-> 75000,
     tax_year |-> 2025]

\* price_service.py:23: the cache of a process that has fetched no price
NoPrices ==
    /\ price_cache = << >>
    /\ clock = 0
    /\ calls = << >>

\* the state of the tax and harvesting engines before they are called
NoHarvest ==
    /\ tax_profile = DefaultProfile
    /\ ai_suggestions = None
    /\ today = 0
    /\ suggestions = << >>
    /\ args = << >>
    /\ result = None
    /\ NoPrices

-----------------------------------------------------------------------------
(* Bounds and input domains *)

MaxTxns == 3

LotPrice == 3

\* models.py TransCode: the members the enum defines
TransCode == {"Buy", "Sell", "STO", "BTC", "BTO", "STC", "OEXP"}

OPTIONS_TRANS_CODES == {"STO", "BTC", "BTO", "STC", "OEXP", "OASGN", "OCA"}

WASH_SALE_WINDOW_DAYS == 30

MillsPerCent == 10

Txn(c, s, d, q, p) ==
    [trans_code |-> c, instrument |-> s, activity_date |-> d,
     quantity |-> q, price |-> p]

\* Inputs of the aggregation: every code on symbol A with quantities 1 and 2 on
\* two dates, purchases and sales of quantity 0, and a second symbol.
LotTxns ==
    {Txn(c, "A", d, q, LotPrice) : c \in TransCode, d \in {1, 2}, q \in {1, 2}}
    \cup {Txn(c, "A", d, 0, LotPrice) : c \in {"Buy", "Sell"}, d \in {1, 2}}
    \cup {Txn("Buy", "B", 1, 1, LotPrice), Txn("Sell", "B", 2, 1, LotPrice)}

-----------------------------------------------------------------------------
(* Exact fractions *)

RECURSIVE GCD(_, _)
GCD(a, b) == IF b = 0 THEN a ELSE GCD(b, a % b)

Abs(x) == IF x < 0 THEN -x ELSE x

Min(a, b) == IF a <= b THEN a ELSE b

\* the fraction n/d (d > 0) in lowest terms
Frac(n, d) ==
    LET g == GCD(Abs(n), d)
    IN  IF g = 0 THEN [n |-> 0, d |-> 1] ELSE [n |-> n \div g, d |-> d \div g]

FracInt(k) == [n |-> k, d |-> 1]

FracAdd(x, y) == Frac(x.n * y.d + y.n * x.d, x.d * y.d)

FracTimes(x, k) == Frac(x.n * k, x.d)

-----------------------------------------------------------------------------
(* transactions_to_tax_lots *)

RECURSIVE SortedByDate(_)
\* a mutation of InsertByDate: a transaction goes before those of its date
InsertByDateUnstable(s, t) ==
    LET keep == {i \in 1..Len(s) : s[i].activity_date < t.activity_date}
        k == Cardinality(keep)
    IN  SubSeq(s, 1, k) \o <<t>> \o SubSeq(s, k + 1, Len(s))

\* sorted(transactions, key=lambda t: t.activity_date): a stable sort
InsertByDate(s, t) ==
    LET keep == {i \in 1..Len(s) : s[i].activity_date <= t.activity_date}
        k == Cardinality(keep)
    IN  SubSeq(s, 1, k) \o <<t>> \o SubSeq(s, k + 1, Len(s))

SortedByDate(s) ==
    IF s = <<>> THEN <<>>
    ELSE InsertByDate(SortedByDate(SubSeq(s, 1, Len(s) - 1)), s[Len(s)])

determine_asset_type(trans_code) ==
    IF trans_code \in OPTIONS_TRANS_CODES THEN "option" ELSE "stock"

TotalCostBasisOf(cost_basis_per_share, quantity) ==
    FracTimes(cost_basis_per_share, quantity)

NewLot(symbol, txn) ==
    [symbol |-> symbol,
     quantity |-> txn.quantity,
     cost_basis_per_share |-> FracInt(txn.price),
     total_cost_basis |-> TotalCostBasisOf(FracInt(txn.price), txn.quantity),
     purchase_date |-> txn.activity_date,
     asset_type |-> determine_asset_type(txn.trans_code),
     wash_sale_disallowed |-> 0]

LotsOf(symbol) == IF symbol \in DOMAIN open_lots THEN open_lots[symbol] ELSE <<>>

SetLots(symbol, lots) ==
    [s \in (DOMAIN open_lots) \cup {symbol} |->
        IF s = symbol THEN lots ELSE open_lots[s]]

CurTxn == sorted_txns[idx]

InLoop == pc = "loop" /\ idx <= Len(sorted_txns)

\* _add_lot, reached for BUY and BTO (csv_parser.py:430)
AddLot ==
    /\ InLoop
    /\ CurTxn.trans_code \in {"Buy", "BTO"}
    /\ LET symbol == CurTxn.instrument
       IN  /\ open_lots' = SetLots(symbol, Append(LotsOf(symbol), NewLot(symbol, CurTxn)))
           /\ key_order' = IF symbol \in DOMAIN open_lots THEN key_order
                           ELSE Append(key_order, symbol)
    /\ idx' = idx + 1
    /\ UNCHANGED harvestVars
    /\ UNCHANGED <<transactions, pc, sorted_txns, remaining_to_sell, warnings,
                   tax_lots, washVars>>

\* _close_lots_fifo, SELL or STC with no open lot of the symbol
CloseNoOpenLots ==
    /\ InLoop
    /\ CurTxn.trans_code \in {"Sell", "STC"}
    /\ LotsOf(CurTxn.instrument) = <<>>
    /\ warnings' = Append(warnings,
          [kind |-> "no open lots found", symbol |-> CurTxn.instrument,
           quantity |-> CurTxn.quantity])
    /\ idx' = idx + 1
    /\ UNCHANGED harvestVars
    /\ UNCHANGED <<transactions, pc, sorted_txns, open_lots, key_order,
                   remaining_to_sell, tax_lots, washVars>>

\* _close_lots_fifo, entry: remaining_to_sell = txn.quantity
CloseBegin ==
    /\ InLoop
    /\ CurTxn.trans_code \in {"Sell", "STC"}
    /\ LotsOf(CurTxn.instrument) # <<>>
    /\ remaining_to_sell' = CurTxn.quantity
    /\ pc' = "closing"
    /\ UNCHANGED harvestVars
    /\ UNCHANGED <<transactions, sorted_txns, idx, open_lots, key_order,
                   warnings, tax_lots, washVars>>

WhileClosing ==
    /\ pc = "closing"
    /\ remaining_to_sell > 0
    /\ LotsOf(CurTxn.instrument) # <<>>

\* a mutation of ClosesWhole: the whole-lot branch is never taken
ClosesWholeNever(quantity, remaining) == FALSE

\* oldest_lot.quantity <= remaining_to_sell: the lot is popped
ClosesWhole(quantity, remaining) == quantity <= remaining

\* a mutation of PartialQuantity: the lot keeps its quantity
PartialQuantityKept(quantity, remaining) == quantity

\* quantity left in a lot that is closed in part
PartialQuantity(quantity, remaining) == quantity - remaining

\* one iteration of the while loop: the oldest lot is closed whole
CloseWholeLot ==
    /\ WhileClosing
    /\ LET lots == LotsOf(CurTxn.instrument)
           oldest_lot == Head(lots)
       IN  /\ ClosesWhole(oldest_lot.quantity, remaining_to_sell)
           /\ remaining_to_sell' = remaining_to_sell - oldest_lot.quantity
           /\ open_lots' = SetLots(CurTxn.instrument, Tail(lots))
    /\ UNCHANGED harvestVars
    /\ UNCHANGED <<transactions, pc, sorted_txns, idx, key_order, warnings,
                   tax_lots, washVars>>

\* one iteration of the while loop: the oldest lot is closed in part
ClosePartialLot ==
    /\ WhileClosing
    /\ LET lots == LotsOf(CurTxn.instrument)
           oldest_lot == Head(lots)
           q == PartialQuantity(oldest_lot.quantity, remaining_to_sell)
       IN  /\ ~ClosesWhole(oldest_lot.quantity, remaining_to_sell)
           /\ open_lots' = SetLots(CurTxn.instrument,
                 <<[oldest_lot EXCEPT
                      !.quantity = q,
                      !.total_cost_basis =
                          TotalCostBasisOf(oldest_lot.cost_basis_per_share, q)]>>
                 \o Tail(lots))
    /\ remaining_to_sell' = 0
    /\ UNCHANGED harvestVars
    /\ UNCHANGED <<transactions, pc, sorted_txns, idx, key_order, warnings,
                   tax_lots, washVars>>

\* the while loop ends; what could not be matched is a warning
CloseEnd ==
    /\ pc = "closing"
    /\ ~(remaining_to_sell > 0 /\ LotsOf(CurTxn.instrument) # <<>>)
    /\ warnings' = IF remaining_to_sell > 0
                   THEN Append(warnings,
                          [kind |-> "could not be matched",
                           symbol |-> CurTxn.instrument,
                           quantity |-> remaining_to_sell])
                   ELSE warnings
    /\ remaining_to_sell' = 0
    /\ idx' = idx + 1
    /\ pc' = "loop"
    /\ UNCHANGED harvestVars
    /\ UNCHANGED <<transactions, sorted_txns, open_lots, key_order, tax_lots,
                   washVars>>

\* csv_parser.py:436 evaluates TransCode.OASGN for every code that is neither a
\* purchase nor a sale; the enum of models.py has no such member, so the
\* attribute lookup raises AttributeError and the call returns nothing.
RaiseAttributeError ==
    /\ InLoop
    /\ CurTxn.trans_code \notin {"Buy", "BTO", "Sell", "STC"}
    /\ pc' = "raised"
    /\ UNCHANGED harvestVars
    /\ UNCHANGED <<transactions, aggVars, tax_lots, washVars>>

RECURSIVE Flatten(_)
Flatten(keys) ==
    IF keys = <<>> THEN <<>> ELSE open_lots[Head(keys)] \o Flatten(Tail(keys))

\* the loop is over: all_open_lots is returned
ReturnLots ==
    /\ pc = "loop"
    /\ idx > Len(sorted_txns)
    /\ tax_lots' = Flatten(key_order)
    /\ pc' = "aggregated"
    /\ UNCHANGED harvestVars
    /\ UNCHANGED <<transactions, aggVars, washVars>>

InitState(txns) ==
    /\ transactions = txns
    /\ pc = "loop"
    /\ sorted_txns = SortedByDate(txns)
    /\ idx = 1
    /\ open_lots = << >>
    /\ key_order = << >>
    /\ remaining_to_sell = 0
    /\ warnings = << >>
    /\ tax_lots = << >>
    /\ buys_sorted = << >>
    /\ sells_sorted = << >>
    /\ sell_idx = 1
    /\ wash_sale_flags = << >>
    /\ flag_idx = 1
    /\ NoHarvest

InitLots == \E n \in 0..MaxTxns : \E txns \in [1..n -> LotTxns] : InitState(txns)

NextLots ==
    \/ AddLot
    \/ CloseNoOpenLots
    \/ CloseBegin
    \/ CloseWholeLot
    \/ ClosePartialLot
    \/ CloseEnd
    \/ RaiseAttributeError
    \/ ReturnLots

SpecLots == InitLots /\ [][NextLots]_vars

-----------------------------------------------------------------------------
(* detect_wash_sales *)

\* Inputs of the analysis: purchases of A around a sale on day 31 (31 and 30
\* days before, the same day, 30 and 31 days after) at 1.6 cents and one at
\* 2.0 cents, sales of A at 1.0 and 2.0 cents, the option codes, a purchase of
\* quantity 0 and a second symbol.
WashDates == {0, 1, 31, 61, 62}

WashTxns ==
    {Txn("Buy", "A", d, q, 16) : d \in WashDates, q \in {1, 2}}
    \cup {Txn("Buy", "A", 1, 1, 20)}
    \cup {Txn("Sell", "A", d, q, p) : d \in {1, 31}, q \in {1, 2}, p \in {10, 20}}
    \cup {Txn("BTO", "A", 1, 1, 20), Txn("STC", "A", 31, 1, 10),
          Txn("OEXP", "A", 31, 1, 0), Txn("Buy", "A", 61, 0, 16),
          Txn("Buy", "B", 1, 1, 20), Txn("Sell", "B", 31, 1, 10)}

IsBuy(t) == t.trans_code \in {"Buy", "BTO"}

IsSell(t) == t.trans_code \in {"Sell", "STC"}

Indices(s) == [i \in 1..Len(s) |-> i]

\* the dict is created empty and never written
used_buy_quantities == << >>

UsedQuantity(buy_idx) ==
    IF buy_idx \in DOMAIN used_buy_quantities
    THEN used_buy_quantities[buy_idx] ELSE 0

CurSell == sells_sorted[sell_idx]

\* indices of the buys of the sell's symbol dated on or before the sell
symbol_buys(sell) ==
    SelectSeq(Indices(buys_sorted), LAMBDA i :
        /\ buys_sorted[i].instrument = sell.instrument
        /\ buys_sorted[i].activity_date <= sell.activity_date)

RECURSIVE FifoCostBasis(_, _, _)
\* the loop of lines 88-98 over symbol_buys
FifoCostBasis(idxs, remaining_sell_qty, total_cost_basis) ==
    IF idxs = <<>> \/ remaining_sell_qty <= 0 THEN total_cost_basis
    ELSE LET buy == buys_sorted[Head(idxs)]
             available == buy.quantity - UsedQuantity(Head(idxs))
             matched == Min(available, remaining_sell_qty)
         IN  IF available <= 0
             THEN FifoCostBasis(Tail(idxs), remaining_sell_qty, total_cost_basis)
             ELSE FifoCostBasis(Tail(idxs), remaining_sell_qty - matched,
                                total_cost_basis + matched * buy.price)

\* loss = total_cost_basis - sale_proceeds
SaleLoss(sell) ==
    FifoCostBasis(symbol_buys(sell), sell.quantity, 0) - sell.quantity * sell.price

\* the list comprehension of lines 112-120
repurchases(sell) ==
    LET window_start == sell.activity_date - WASH_SALE_WINDOW_DAYS
        window_end == sell.activity_date + WASH_SALE_WINDOW_DAYS
    IN  SelectSeq(Indices(buys_sorted), LAMBDA i :
            /\ buys_sorted[i].instrument = sell.instrument
            /\ window_start <= buys_sorted[i].activity_date
            /\ buys_sorted[i].activity_date <= window_end
            /\ buys_sorted[i].activity_date # sell.activity_date
            /\ buys_sorted[i].activity_date
                  >= sell.activity_date - WASH_SALE_WINDOW_DAYS)

\* the filter of lines 124-129
qualifying_repurchases(sell) ==
    SelectSeq(repurchases(sell), LAMBDA i :
        buys_sorted[i].activity_date
            > sell.activity_date - WASH_SALE_WINDOW_DAYS)

RECURSIVE BuyQuantitySum(_)
BuyQuantitySum(idxs) ==
    IF idxs = <<>> THEN 0
    ELSE buys_sorted[Head(idxs)].quantity + BuyQuantitySum(Tail(idxs))

total_repurchase_qty(sell) == BuyQuantitySum(qualifying_repurchases(sell))

\* a mutation of DisallowedLoss: no proration
DisallowedLossWhole(loss, repurchase_qty, sale_qty) == FracInt(loss)

\* lines 137-142, before rounding
DisallowedLoss(loss, repurchase_qty, sale_qty) ==
    IF repurchase_qty >= sale_qty THEN FracInt(loss)
    ELSE Frac(loss * repurchase_qty, sale_qty)

\* min(qualifying_repurchases, key=activity_date): the first of the earliest
earliest_repurchase(idxs) ==
    LET earliest == {k \in 1..Len(idxs) :
            \A j \in 1..Len(idxs) :
                buys_sorted[idxs[k]].activity_date
                    <= buys_sorted[idxs[j]].activity_date}
    IN  buys_sorted[idxs[CHOOSE k \in earliest : \A j \in earliest : k <= j]]

\* round(x, 2) of a non-negative amount of mills: the nearest whole number of
\* cents; a float that stands for a decimal tie lands on either neighbour
RoundCents(x) ==
    LET unit == x.d * MillsPerCent
        q == x.n \div unit
        r == x.n - q * unit
    IN  IF 2 * r < unit THEN {q * MillsPerCent}
        ELSE IF 2 * r > unit THEN {(q + 1) * MillsPerCent}
        ELSE {q * MillsPerCent, (q + 1) * MillsPerCent}

\* main.py:302: the analysis calls detect_wash_sales; lines 49-66
DetectBegin ==
    /\ pc = "aggregated"
    /\ transactions # <<>>
    /\ buys_sorted' = SortedByDate(SelectSeq(transactions, IsBuy))
    /\ sells_sorted' = SortedByDate(SelectSeq(transactions, IsSell))
    /\ sell_idx' = 1
    /\ wash_sale_flags' = <<>>
    /\ pc' = "detect"
    /\ UNCHANGED harvestVars
    /\ UNCHANGED <<transactions, aggVars, tax_lots, flag_idx>>

InDetect == pc = "detect" /\ sell_idx <= Len(sells_sorted)

NextSell ==
    /\ sell_idx' = sell_idx + 1
    /\ UNCHANGED harvestVars
    /\ UNCHANGED <<transactions, pc, aggVars, tax_lots, buys_sorted,
                   sells_sorted, flag_idx>>

\* lines 81-82
SkipNoBuys ==
    /\ InDetect
    /\ symbol_buys(CurSell) = <<>>
    /\ UNCHANGED wash_sale_flags
    /\ NextSell

\* lines 104-106
SkipNoLoss ==
    /\ InDetect
    /\ symbol_buys(CurSell) # <<>>
    /\ SaleLoss(CurSell) <= 0
    /\ UNCHANGED wash_sale_flags
    /\ NextSell

\* lines 131-132
SkipNoRepurchase ==
    /\ InDetect
    /\ symbol_buys(CurSell) # <<>>
    /\ SaleLoss(CurSell) > 0
    /\ qualifying_repurchases(CurSell) = <<>>
    /\ UNCHANGED wash_sale_flags
    /\ NextSell

\* lines 134-172
EmitFlag ==
    /\ InDetect
    /\ symbol_buys(CurSell) # <<>>
    /\ SaleLoss(CurSell) > 0
    /\ qualifying_repurchases(CurSell) # <<>>
    /\ LET sell == CurSell
           loss == SaleLoss(sell)
           total == total_repurchase_qty(sell)
           disallowed_loss == DisallowedLoss(loss, total, sell.quantity)
           repurchase_txn == earliest_repurchase(qualifying_repurchases(sell))
           original_cost ==
               repurchase_txn.price * Min(repurchase_txn.quantity, sell.quantity)
           adjusted_cost == FracAdd(FracInt(original_cost), disallowed_loss)
       IN  \E d \in RoundCents(disallowed_loss), a \in RoundCents(adjusted_cost) :
              wash_sale_flags' = Append(wash_sale_flags,
                 [symbol |-> sell.instrument,
                  sale_date |-> sell.activity_date,
                  sale_quantity |-> sell.quantity,
                  sale_loss |-> loss,
                  repurchase_date |-> repurchase_txn.activity_date,
                  repurchase_quantity |-> Min(total, sell.quantity),
                  disallowed_loss |-> d,
                  adjusted_cost_basis |-> a])
    /\ NextSell

\* line 174, and main.py:303: lots are adjusted only when there are flags
DetectReturn ==
    /\ pc = "detect"
    /\ sell_idx > Len(sells_sorted)
    /\ pc' = IF wash_sale_flags # <<>> THEN "adjust" ELSE "done"
    /\ flag_idx' = 1
    /\ UNCHANGED harvestVars
    /\ UNCHANGED <<transactions, aggVars, tax_lots, buys_sorted, sells_sorted,
                   sell_idx, wash_sale_flags>>

-----------------------------------------------------------------------------
(* adjust_lots_for_wash_sales *)

CurFlag == wash_sale_flags[flag_idx]

\* a mutation of IsReplacementLot: the purchase date is not compared
IsReplacementLotBySymbol(lot, flag) == lot.symbol = flag.symbol

\* lines 246-249
IsReplacementLot(lot, flag) ==
    /\ lot.symbol = flag.symbol
    /\ lot.purchase_date = flag.repurchase_date

MatchingLots(flag) ==
    {j \in 1..Len(tax_lots) : IsReplacementLot(tax_lots[j], flag)}

\* a mutation of AdjustedLot: the loss is added to the total instead of
\* recomputing the total from the per-share basis
AdjustedLotAddsToTotal(lot, flag) ==
    LET per_share_adjustment ==
            IF lot.quantity > 0 THEN Frac(flag.disallowed_loss, lot.quantity)
            ELSE FracInt(0)
    IN  [lot EXCEPT
            !.wash_sale_disallowed = lot.wash_sale_disallowed + flag.disallowed_loss,
            !.cost_basis_per_share =
                FracAdd(lot.cost_basis_per_share, per_share_adjustment),
            !.total_cost_basis =
                FracAdd(lot.total_cost_basis, FracInt(flag.disallowed_loss))]

\* lines 251-254
AdjustedLot(lot, flag) ==
    LET per_share_adjustment ==
            IF lot.quantity > 0 THEN Frac(flag.disallowed_loss, lot.quantity)
            ELSE FracInt(0)
        cost_basis_per_share ==
            FracAdd(lot.cost_basis_per_share, per_share_adjustment)
    IN  [lot EXCEPT
            !.wash_sale_disallowed = lot.wash_sale_disallowed + flag.disallowed_loss,
            !.cost_basis_per_share = cost_basis_per_share,
            !.total_cost_basis = TotalCostBasisOf(cost_basis_per_share, lot.quantity)]

InAdjust == pc = "adjust" /\ flag_idx <= Len(wash_sale_flags)

\* the first lot of the flag's symbol and repurchase date is adjusted (break)
AdjustMatch ==
    /\ InAdjust
    /\ MatchingLots(CurFlag) # {}
    /\ LET j == CHOOSE k \in MatchingLots(CurFlag) :
                    \A m \in MatchingLots(CurFlag) : k <= m
       IN  tax_lots' = [tax_lots EXCEPT ![j] = AdjustedLot(tax_lots[j], CurFlag)]
    /\ flag_idx' = flag_idx + 1
    /\ UNCHANGED harvestVars
    /\ UNCHANGED <<transactions, pc, aggVars, buys_sorted, sells_sorted,
                   sell_idx, wash_sale_flags>>

\* no lot of the flag's symbol and repurchase date: the inner loop ends
AdjustNoMatch ==
    /\ InAdjust
    /\ MatchingLots(CurFlag) = {}
    /\ flag_idx' = flag_idx + 1
    /\ UNCHANGED harvestVars
    /\ UNCHANGED <<transactions, pc, aggVars, tax_lots, buys_sorted,
                   sells_sorted, sell_idx, wash_sale_flags>>

\* line 262
AdjustReturn ==
    /\ pc = "adjust"
    /\ flag_idx > Len(wash_sale_flags)
    /\ pc' = "done"
    /\ UNCHANGED harvestVars
    /\ UNCHANGED <<transactions, aggVars, tax_lots, washVars>>

-----------------------------------------------------------------------------
(* The analysis: aggregation, detection, adjustment (main.py:257, 302-304) *)

\* parse_csv returns before the aggregation when no transaction was parsed
Init == \E n \in 1..MaxTxns : \E txns \in [1..n -> WashTxns] : InitState(txns)

Next ==
    \/ AddLot
    \/ CloseNoOpenLots
    \/ CloseBegin
    \/ CloseWholeLot
    \/ ClosePartialLot
    \/ CloseEnd
    \/ RaiseAttributeError
    \/ ReturnLots
    \/ DetectBegin
    \/ SkipNoBuys
    \/ SkipNoLoss
    \/ SkipNoRepurchase
    \/ EmitFlag
    \/ DetectReturn
    \/ AdjustMatch
    \/ AdjustNoMatch
    \/ AdjustReturn

Spec == Init /\ [][Next]_vars

-----------------------------------------------------------------------------
(* adjust_lots_for_wash_sales called with lots and flags of the caller *)

MaxLots == 2

MaxFlags == 2

Lot(symbol, quantity, price, purchase_date) ==
    [symbol |-> symbol,
     quantity |-> quantity,
     cost_basis_per_share |-> FracInt(price),
     total_cost_basis |-> FracInt(price * quantity),
     purchase_date |-> purchase_date,
     asset_type |-> "stock",
     wash_sale_disallowed |-> 0]

AdjustLots == {Lot(s, q, 20, d) : s \in {"A", "B"}, q \in {0, 1, 3}, d \in {1, 61}}

AdjustFlags ==
    {[symbol |-> s, sale_date |-> 31, sale_quantity |-> 1, sale_loss |-> 10,
      repurchase_date |-> d, repurchase_quantity |-> 1, disallowed_loss |-> 10,
      adjusted_cost_basis |-> 30] : s \in {"A", "B"}, d \in {1, 61}}

InitAdjust ==
    \E n \in 0..MaxLots, m \in 0..MaxFlags :
    \E lots \in [1..n -> AdjustLots], flags \in [1..m -> AdjustFlags] :
        /\ transactions = << >>
        /\ pc = "adjust"
        /\ sorted_txns = << >>
        /\ idx = 1
        /\ open_lots = << >>
        /\ key_order = << >>
        /\ remaining_to_sell = 0
        /\ warnings = << >>
        /\ tax_lots = lots
        /\ buys_sorted = << >>
        /\ sells_sorted = << >>
        /\ sell_idx = 1
        /\ wash_sale_flags = flags
        /\ flag_idx = 1
        /\ NoHarvest

NextAdjust ==
    \/ AdjustMatch
    \/ AdjustNoMatch
    \/ AdjustReturn

SpecAdjust == InitAdjust /\ [][NextAdjust]_vars

-----------------------------------------------------------------------------
(* _remove_lots_fifo called on the open lots of the caller.  The call at    *)
(* csv_parser.py:438 is behind the failing lookup of line 436, so the       *)
(* function runs only when it is called by itself.                          *)

\* list.remove(lot): the first element equal to lot is taken out
RemoveFirst(lots, lot) ==
    LET j == CHOOSE k \in 1..Len(lots) :
                 lots[k] = lot /\ \A m \in 1..(k - 1) : lots[m] # lot
    IN  SubSeq(lots, 1, j - 1) \o SubSeq(lots, j + 1, Len(lots))

RECURSIVE RemoveAll(_, _)
\* the loop of lines 347-348
RemoveAll(lots, lots_to_remove) ==
    IF lots_to_remove = <<>> THEN lots
    ELSE RemoveAll(RemoveFirst(lots, Head(lots_to_remove)), Tail(lots_to_remove))

RECURSIVE RemoveScan(_, _, _, _)
\* the loop of lines 337-346 from lot i on: the lots as changed in place, and
\* the lots to remove
RemoveScan(lots, i, remaining, lots_to_remove) ==
    IF i > Len(lots) \/ remaining <= 0
    THEN [lots |-> lots, lots_to_remove |-> lots_to_remove]
    ELSE IF lots[i].quantity <= remaining
         THEN RemoveScan(lots, i + 1, remaining - lots[i].quantity,
                         Append(lots_to_remove, lots[i]))
         ELSE RemoveScan(
                [lots EXCEPT ![i] = [@ EXCEPT
                    !.quantity = lots[i].quantity - remaining,
                    !.total_cost_basis =
                        TotalCostBasisOf(lots[i].cost_basis_per_share,
                                         lots[i].quantity - remaining)]],
                i + 1, 0, lots_to_remove)

\* _remove_lots_fifo(open_lots, symbol, quantity)
RemoveLotsFifo ==
    /\ pc = "remove"
    /\ \E symbol \in {"A", "B"}, quantity \in 0..4 :
          IF symbol \notin DOMAIN open_lots THEN UNCHANGED open_lots
          ELSE LET scan == RemoveScan(open_lots[symbol], 1, quantity, <<>>)
               IN  open_lots' = SetLots(symbol,
                                    RemoveAll(scan.lots, scan.lots_to_remove))
    /\ pc' = "removed"
    /\ UNCHANGED harvestVars
    /\ UNCHANGED <<transactions, sorted_txns, idx, key_order, remaining_to_sell,
                   warnings, tax_lots, washVars>>

InitRemove ==
    \E n \in 0..MaxLots : \E lots \in [1..n -> {l \in AdjustLots : l.symbol = "A"}] :
        /\ transactions = << >>
        /\ pc = "remove"
        /\ sorted_txns = << >>
        /\ idx = 1
        /\ open_lots = [s \in {"A"} |-> lots]
        /\ key_order = <<"A">>
        /\ remaining_to_sell = 0
        /\ warnings = << >>
        /\ tax_lots = << >>
        /\ buys_sorted = << >>
        /\ sells_sorted = << >>
        /\ sell_idx = 1
        /\ wash_sale_flags = << >>
        /\ flag_idx = 1
        /\ NoHarvest

\* every way a lot is created or changed: the analysis and the direct calls
InitMutations == Init \/ InitAdjust \/ InitRemove

NextMutations ==
    \/ AddLot
    \/ CloseNoOpenLots
    \/ CloseBegin
    \/ CloseWholeLot
    \/ ClosePartialLot
    \/ CloseEnd
    \/ RaiseAttributeError
    \/ ReturnLots
    \/ DetectBegin
    \/ SkipNoBuys
    \/ SkipNoLoss
    \/ SkipNoRepurchase
    \/ EmitFlag
    \/ DetectReturn
    \/ AdjustMatch
    \/ AdjustNoMatch
    \/ AdjustReturn
    \/ RemoveLotsFifo

SpecMutations == InitMutations /\ [][NextMutations]_vars

-----------------------------------------------------------------------------
(* tax_engine.py.  Incomes and bracket bounds are whole dollars, rates are *)
(* thousandths (0.038 is 38), amounts of gain, loss and tax are mills.     *)

FilingStatus ==
    {"single", "married_filing_jointly", "married_filing_separately",
     "head_of_household"}

\* the unit of a rate: 0.001
RateUnit == 1000

\* float("inf")
Infinity == 1000000000

MillsPerDollar == 100 * MillsPerCent

LTCG_BRACKETS_2025 ==
    [single |-> <<<<48350, 0>>, <<533400, 150>>, <<Infinity, 200>>>>,
     married_filing_jointly |-> <<<<96700, 0>>, <<600050, 150>>, <<Infinity, 200>>>>,
     married_filing_separately |-> <<<<48350, 0>>, <<300000, 150>>, <<Infinity, 200>>>>,
     head_of_household |-> <<<<64750, 0>>, <<566700, 150>>, <<Infinity, 200>>>>]

LTCG_BRACKETS_2026 ==
    [single |-> <<<<49450, 0>>, <<545500, 150>>, <<Infinity, 200>>>>,
     married_filing_jointly |-> <<<<98900, 0>>, <<613700, 150>>, <<Infinity, 200>>>>,
     married_filing_separately |-> <<<<49450, 0>>, <<306850, 150>>, <<Infinity, 200>>>>,
     head_of_household |-> <<<<66200, 0>>, <<579600, 150>>, <<Infinity, 200>>>>]

ORDINARY_BRACKETS_2025 ==
    [single |->
        <<<<11925, 100>>, <<48475, 120>>, <<103350, 220>>, <<197300, 240>>,
          <<250525, 320>>, <<626350, 350>>, <<Infinity, 370>>>>,
     married_filing_jointly |->
        <<<<23850, 100>>, <<96950, 120>>, <<206700, 220>>, <<394600, 240>>,
          <<501050, 320>>, <<751600, 350>>, <<Infinity, 370>>>>,
     married_filing_separately |->
        <<<<11925, 100>>, <<48475, 120>>, <<103350, 220>>, <<197300, 240>>,
          <<250525, 320>>, <<375800, 350>>, <<Infinity, 370>>>>,
     head_of_household |->
        <<<<17000, 100>>, <<64850, 120>>, <<103350, 220>>, <<197300, 240>>,
          <<250500, 320>>, <<626350, 350>>, <<Infinity, 370>>>>]

ORDINARY_BRACKETS_2026 ==
    [single |->
        <<<<12150, 100>>, <<49475, 120>>, <<105525, 220>>, <<201450, 240>>,
          <<255800, 320>>, <<639750, 350>>, <<Infinity, 370>>>>,
     married_filing_jointly |->
        <<<<24300, 100>>, <<98950, 120>>, <<211050, 220>>, <<402900, 240>>,
          <<511550, 320>>, <<767550, 350>>, <<Infinity, 370>>>>,
     married_filing_separately |->
        <<<<12150, 100>>, <<49475, 120>>, <<105525, 220>>, <<201450, 240>>,
          <<255800, 320>>, <<383775, 350>>, <<Infinity, 370>>>>,
     head_of_household |->
        <<<<17350, 100>>, <<66200, 120>>, <<105525, 220>>, <<201450, 240>>,
          <<255800, 320>>, <<639750, 350>>, <<Infinity, 370>>>>]

NIIT_RATE == 38

NIIT_THRESHOLDS ==
    [single |-> 200000, married_filing_jointly |-> 250000,
     married_filing_separately |-> 125000, head_of_household |-> 200000]

CAPITAL_LOSS_DEDUCTION_LIMIT == 3000

CAPITAL_LOSS_DEDUCTION_LIMIT_MFS == 1500

get_ltcg_brackets(tax_year) ==
    IF tax_year >= 2026 THEN LTCG_BRACKETS_2026 ELSE LTCG_BRACKETS_2025

get_ordinary_brackets(tax_year) ==
    IF tax_year >= 2026 THEN ORDINARY_BRACKETS_2026 ELSE ORDINARY_BRACKETS_2025

\* brackets.get(profile.filing_status, brackets[FilingStatus.SINGLE])
FilingBrackets(brackets, profile) ==
    IF profile.filing_status \in DOMAIN brackets
    THEN brackets[profile.filing_status] ELSE brackets["single"]

\* a mutation of WithinBracket: an income equal to the bound goes to the next
\* bracket
WithinBracketStrict(income, threshold) == income < threshold

\* if income <= threshold
WithinBracket(income, threshold) == income <= threshold

RECURSIVE BracketRate(_, _, _)
\* for threshold, rate in filing_brackets: if income <= threshold: return rate
BracketRate(filing_brackets, income, top_rate) ==
    IF filing_brackets = <<>> THEN top_rate
    ELSE IF WithinBracket(income, Head(filing_brackets)[1])
         THEN Head(filing_brackets)[2]
         ELSE BracketRate(Tail(filing_brackets), income, top_rate)

get_marginal_ordinary_rate(income, profile) ==
    BracketRate(FilingBrackets(get_ordinary_brackets(profile.tax_year), profile),
                income, 370)

get_ltcg_rate(income, profile) ==
    BracketRate(FilingBrackets(get_ltcg_brackets(profile.tax_year), profile),
                income, 200)

\* a mutation of check_niit: an income equal to the threshold triggers it
check_niit_at_threshold(income, profile) ==
    income >= NIIT_THRESHOLDS[profile.filing_status]

check_niit(income, profile) ==
    LET threshold == IF profile.filing_status \in DOMAIN NIIT_THRESHOLDS
                     THEN NIIT_THRESHOLDS[profile.filing_status] ELSE 200000
    IN  income > threshold

\* gain is an amount of mills, the tax an exact fraction of mills
calculate_tax_on_gain(gain, is_long_term, profile) ==
    LET income == profile.estimated_annual_income
        niit_applies == check_niit(income, profile)
        base_rate == IF is_long_term THEN get_ltcg_rate(income, profile)
                     ELSE get_marginal_ordinary_rate(income, profile)
        effective_rate == IF niit_applies THEN base_rate + NIIT_RATE ELSE base_rate
    IN  [short_term_rate |-> get_marginal_ordinary_rate(income, profile),
         long_term_rate |-> get_ltcg_rate(income, profile),
         niit_applies |-> niit_applies,
         effective_rate |-> effective_rate,
         estimated_tax |-> Frac(gain * effective_rate, RateUnit)]

FracAbs(x) == [n |-> Abs(x.n), d |-> x.d]

\* a mutation of calculate_tax_savings: no early return for loss <= 0
calculate_tax_savings_unguarded(loss, is_long_term, profile) ==
    FracAbs(calculate_tax_on_gain(loss, is_long_term, profile).estimated_tax)

calculate_tax_savings(loss, is_long_term, profile) ==
    IF loss <= 0 THEN FracInt(0)
    ELSE FracAbs(calculate_tax_on_gain(loss, is_long_term, profile).estimated_tax)

get_capital_loss_limit(profile) ==
    IF profile.filing_status = "married_filing_separately"
    THEN CAPITAL_LOSS_DEDUCTION_LIMIT_MFS
    ELSE CAPITAL_LOSS_DEDUCTION_LIMIT

-----------------------------------------------------------------------------
(* The functions of tax_engine.py called by themselves *)

MaxLoss == 2

\* losses and gains of whole multiples of $1.01, the negative ones and 0 included
TaxLosses == {k * (MillsPerDollar + MillsPerCent) : k \in (0 - MaxLoss)..MaxLoss}

BracketBounds(brackets) ==
    UNION {{brackets[s][i][1] : i \in 1..Len(brackets[s])} : s \in DOMAIN brackets}

\* every bound of every table and every NIIT threshold, one dollar below it and
\* one dollar above it, and no income at all
TaxIncomes ==
    LET bounds == (BracketBounds(LTCG_BRACKETS_2025) \cup BracketBounds(LTCG_BRACKETS_2026)
                   \cup BracketBounds(ORDINARY_BRACKETS_2025)
                   \cup BracketBounds(ORDINARY_BRACKETS_2026)
                   \cup {NIIT_THRESHOLDS[s] : s \in DOMAIN NIIT_THRESHOLDS})
                  \ {Infinity}
    IN  {0} \cup {t + d : t \in bounds, d \in {0 - 1, 0, 1}}

\* models.py TaxProfile: tax_year has ge=2024, le=2026
TaxYears == 2024..2026

\* no transactions, lots or flags: the analysis is not running
NoAnalysis ==
    /\ transactions = << >>
    /\ sorted_txns = << >>
    /\ idx = 1
    /\ open_lots = << >>
    /\ key_order = << >>
    /\ remaining_to_sell = 0
    /\ warnings = << >>
    /\ tax_lots = << >>
    /\ buys_sorted = << >>
    /\ sells_sorted = << >>
    /\ sell_idx = 1
    /\ wash_sale_flags = << >>
    /\ flag_idx = 1

InitTax ==
    \E loss \in TaxLosses, is_long_term \in BOOLEAN, filing_status \in FilingStatus,
       income \in TaxIncomes, tax_year \in TaxYears :
        /\ NoAnalysis
        /\ pc = "tax"
        /\ tax_profile = [filing_status |-> filing_status,
                          estimated_annual_income |-> income,
                          tax_year |-> tax_year]
        /\ ai_suggestions = None
        /\ today = 0
        /\ suggestions = << >>
        /\ args = [loss |-> loss, is_long_term |-> is_long_term]
        /\ result = None
        /\ NoPrices

Return(fn, value) ==
    /\ pc = "tax"
    /\ pc' = "returned"
    /\ result' = [fn |-> fn, value |-> value]
    /\ UNCHANGED <<priceVars, transactions, aggVars, tax_lots, washVars, tax_profile,
                   ai_suggestions, today, suggestions, args>>

CallMarginalOrdinaryRate ==
    Return("get_marginal_ordinary_rate",
           get_marginal_ordinary_rate(tax_profile.estimated_annual_income, tax_profile))

CallLtcgRate ==
    Return("get_ltcg_rate",
           get_ltcg_rate(tax_profile.estimated_annual_income, tax_profile))

CallCheckNiit ==
    Return("check_niit", check_niit(tax_profile.estimated_annual_income, tax_profile))

CallTaxOnGain ==
    Return("calculate_tax_on_gain",
           calculate_tax_on_gain(args.loss, args.is_long_term, tax_profile))

CallTaxSavings ==
    Return("calculate_tax_savings",
           calculate_tax_savings(args.loss, args.is_long_term, tax_profile))

NextTax ==
    \/ CallMarginalOrdinaryRate
    \/ CallLtcgRate
    \/ CallCheckNiit
    \/ CallTaxOnGain
    \/ CallTaxSavings

SpecTax == InitTax /\ [][NextTax]_vars

-----------------------------------------------------------------------------
(* check_prospective_wash_sale_risk *)

\* a mutation of InTrailingWindow: purchases dated after the reference date count
InTrailingWindowOpenEnded(activity_date, reference_date) ==
    reference_date - WASH_SALE_WINDOW_DAYS <= activity_date

\* window_start <= t.activity_date <= reference_date
InTrailingWindow(activity_date, reference_date) ==
    /\ reference_date - WASH_SALE_WINDOW_DAYS <= activity_date
    /\ activity_date <= reference_date

recent_buys(symbol, txns, reference_date) ==
    SelectSeq(txns, LAMBDA t :
        /\ t.instrument = symbol
        /\ t.trans_code \in {"Buy", "BTO"}
        /\ InTrailingWindow(t.activity_date, reference_date))

\* max(recent_buys, key=activity_date): the first of the latest
latest_buy(buys) ==
    LET latest == {k \in 1..Len(buys) :
            \A j \in 1..Len(buys) : buys[j].activity_date <= buys[k].activity_date}
    IN  buys[CHOOSE k \in latest : \A j \in latest : k <= j]

\* The explanation is the text of lines 215-220; what it names is kept: the days
\* since the purchase, the purchase date and the date to wait until.
check_prospective_wash_sale_risk(symbol, txns, reference_date) ==
    LET ref == IF reference_date = None THEN today ELSE reference_date[1]
        buys == recent_buys(symbol, txns, ref)
    IN  IF buys # <<>>
        THEN <<TRUE, [symbol |-> symbol,
                      days_ago |-> ref - latest_buy(buys).activity_date,
                      purchased_on |-> latest_buy(buys).activity_date,
                      wait_until |-> latest_buy(buys).activity_date + 31]>>
        ELSE <<FALSE, "">>

\* purchases one day before the trailing window, on its first day, on its last
\* day and one day after it, for the reference dates 31 and 32
RiskDates == {0, 1, 2, 31, 32, 33}

RiskTxns ==
    {Txn(c, "A", d, 1, 20) : c \in {"Buy", "BTO", "Sell"}, d \in RiskDates}
    \cup {Txn("Buy", "B", 31, 1, 20), Txn("STO", "A", 31, 1, 20)}

InitRisk ==
    \E n \in 0..MaxTxns : \E txns \in [1..n -> RiskTxns] :
    \E symbol \in {"A", "B"}, reference_date \in {None, Some(32)} :
        /\ transactions = txns
        /\ pc = "risk"
        /\ sorted_txns = << >>
        /\ idx = 1
        /\ open_lots = << >>
        /\ key_order = << >>
        /\ remaining_to_sell = 0
        /\ warnings = << >>
        /\ tax_lots = << >>
        /\ buys_sorted = << >>
        /\ sells_sorted = << >>
        /\ sell_idx = 1
        /\ wash_sale_flags = << >>
        /\ flag_idx = 1
        /\ tax_profile = DefaultProfile
        /\ ai_suggestions = None
        /\ today = 31
        /\ suggestions = << >>
        /\ args = [symbol |-> symbol, reference_date |-> reference_date]
        /\ result = None
        /\ NoPrices

CallProspectiveRisk ==
    /\ pc = "risk"
    /\ pc' = "returned"
    /\ result' = [fn |-> "check_prospective_wash_sale_risk",
                  value |-> check_prospective_wash_sale_risk(
                                args.symbol, transactions, args.reference_date)]
    /\ UNCHANGED <<priceVars, transactions, aggVars, tax_lots, washVars, tax_profile,
                   ai_suggestions, today, suggestions, args>>

NextRisk == CallProspectiveRisk

SpecRisk == InitRisk /\ [][NextRisk]_vars

-----------------------------------------------------------------------------
(* harvesting.py: compute_lot_metrics *)

FracNeg(x) == [n |-> 0 - x.n, d |-> x.d]

\* round(x): the nearest whole number; a float that stands for a tie lands on
\* either neighbour
RoundNearest(x) ==
    LET a == Abs(x.n)
        q == a \div x.d
        r == a - q * x.d
        sign == IF x.n < 0 THEN 0 - 1 ELSE 1
    IN  IF 2 * r < x.d THEN {sign * q}
        ELSE IF 2 * r > x.d THEN {sign * (q + 1)}
        ELSE {sign * q, sign * (q + 1)}

\* round(x, 2) of an amount of mills, negative amounts included
RoundCentsSigned(x) ==
    {c * MillsPerCent : c \in RoundNearest(Frac(x.n, x.d * MillsPerCent))}

\* a TaxLot with its optional fields: models.py TaxLot
PricedLot(symbol, quantity, price, current_price, purchase_date) ==
    [symbol |-> symbol,
     quantity |-> quantity,
     cost_basis_per_share |-> FracInt(price),
     total_cost_basis |-> FracInt(price * quantity),
     purchase_date |-> purchase_date,
     current_price |-> current_price,
     asset_type |-> "stock",
     unrealized_pnl |-> None,
     unrealized_pnl_pct |-> None,
     holding_period_days |-> None,
     is_long_term |-> None,
     wash_sale_disallowed |-> 0]

\* a mutation of IsLongTerm: a lot held exactly 365 days is long-term
IsLongTermFrom365(holding_period_days) == holding_period_days >= 365

\* lot.holding_period_days > 365
IsLongTerm(holding_period_days) == holding_period_days > 365

\* lines 111-113, before the choice of a rounding
UnrealizedPnl(lot) ==
    FracTimes(FracAdd(FracInt(lot.current_price[1]), FracNeg(lot.cost_basis_per_share)),
              lot.quantity)

\* lines 114-119: a percentage in hundredths of a percent
UnrealizedPnlPct(lot, unrealized_pnl) ==
    IF lot.total_cost_basis.n > 0
    THEN RoundNearest(FracTimes(Frac(unrealized_pnl * lot.total_cost_basis.d,
                                     lot.total_cost_basis.n), 100 * 100))
    ELSE {0}

\* the lots one lot can become in the loop body of lines 108-124
LotMetrics(lot, reference_date) ==
    LET days == reference_date - lot.purchase_date
        dated == [lot EXCEPT !.holding_period_days = Some(days),
                             !.is_long_term = Some(IsLongTerm(days))]
    IN  IF lot.current_price # None
        THEN UNION {{[dated EXCEPT !.unrealized_pnl = Some(pnl),
                                   !.unrealized_pnl_pct = Some(pct)] :
                        pct \in UnrealizedPnlPct(lot, pnl)} :
                    pnl \in RoundCentsSigned(UnrealizedPnl(lot))}
        ELSE {dated}

RECURSIVE Choices(_)
\* the sequences that take their i-th element from the i-th set
Choices(sets) ==
    IF sets = << >> THEN {<< >>}
    ELSE {Append(s, x) : s \in Choices(SubSeq(sets, 1, Len(sets) - 1)),
                         x \in sets[Len(sets)]}

\* compute_lot_metrics(tax_lots, reference_date): every lot is updated in place
compute_lot_metrics(lots, reference_date) ==
    LET ref == IF reference_date = None THEN today ELSE reference_date[1]
    IN  Choices([i \in 1..Len(lots) |-> LotMetrics(lots[i], ref)])

-----------------------------------------------------------------------------
(* harvesting.py: _get_replacements, _get_ai_explanation, generate_suggestions *)

Candidate(symbol, name, reason) == [symbol |-> symbol, name |-> name, reason |-> reason]

XLC == "Communication Services Select Sector SPDR"

FALLBACK_REPLACEMENTS ==
    [AAPL |-> <<Candidate("XLK", "Technology Select Sector SPDR", "Broad tech sector ETF"),
                Candidate("QQQ", "Invesco QQQ Trust", "Nasdaq-100 index ETF with heavy AAPL weight")>>,
     MSFT |-> <<Candidate("VGT", "Vanguard Information Technology ETF", "Broad IT sector exposure"),
                Candidate("IGV", "iShares Expanded Tech-Software ETF", "Software sector ETF")>>,
     GOOGL |-> <<Candidate("XLC", XLC, "Communication services sector ETF"),
                 Candidate("VOX", "Vanguard Communication Services ETF", "Broad communication services exposure")>>,
     TSLA |-> <<Candidate("DRIV", "Global X Autonomous & Electric Vehicles ETF", "EV and autonomous driving sector ETF"),
                Candidate("QCLN", "First Trust NASDAQ Clean Edge Green Energy", "Clean energy focus including EV")>>,
     NVDA |-> <<Candidate("SMH", "VanEck Semiconductor ETF", "Broad semiconductor sector ETF"),
                Candidate("SOXX", "iShares Semiconductor ETF", "Semiconductor index exposure")>>,
     AMZN |-> <<Candidate("XLY", "Consumer Discretionary Select Sector SPDR", "Consumer discretionary sector ETF"),
                Candidate("IBUY", "Amplify Online Retail ETF", "E-commerce focused ETF")>>,
     META |-> <<Candidate("XLC", XLC, "Communication services sector"),
                Candidate("SOCL", "Global X Social Media ETF", "Social media focused ETF")>>,
     AMD |-> <<Candidate("SMH", "VanEck Semiconductor ETF", "Semiconductor sector ETF"),
               Candidate("PSI", "Invesco Dynamic Semiconductors ETF", "Dynamic semiconductor exposure")>>,
     NFLX |-> <<Candidate("XLC", XLC, "Communication services sector"),
                Candidate("PEJ", "Invesco Dynamic Leisure & Entertainment ETF", "Entertainment sector ETF")>>,
     DIS |-> <<Candidate("PEJ", "Invesco Dynamic Leisure & Entertainment ETF", "Leisure and entertainment sector"),
               Candidate("XLC", XLC, "Communication services exposure")>>,
     _DEFAULT |-> <<Candidate("VTI", "Vanguard Total Stock Market ETF", "Broad US market exposure"),
                    Candidate("SPY", "SPDR S&P 500 ETF", "S&P 500 index ETF")>>]

\* d.get(key, default) of a dict held as a record
Get(d, key, default) == IF key \in DOMAIN d THEN d[key] ELSE default

\* "if ai_suggestions and symbol in ai_suggestions": None and {} are both falsy
HasAdvice(symbol, ai) == ai # None /\ symbol \in DOMAIN ai[1]

\* _get_replacements(symbol, ai_suggestions)
get_replacements(symbol, ai) ==
    IF HasAdvice(symbol, ai) /\ "replacements" \in DOMAIN ai[1][symbol]
    THEN LET rs == SelectSeq(ai[1][symbol].replacements,
                             LAMBDA r : Get(r, "symbol", "") # "")
         IN  [i \in 1..Len(rs) |->
                 Candidate(Get(rs[i], "symbol", ""), Get(rs[i], "name", ""),
                           Get(rs[i], "reason", ""))]
    ELSE Get(FALLBACK_REPLACEMENTS, symbol, FALLBACK_REPLACEMENTS["_DEFAULT"])

\* _get_ai_explanation(symbol, ai_suggestions)
get_ai_explanation(symbol, ai) ==
    IF HasAdvice(symbol, ai) THEN Get(ai[1][symbol], "explanation", "") ELSE ""

\* "x or default" of an optional value
Or(option, default) == IF option = None THEN default ELSE option[1]

\* lines 207-210
IsLossLot(lot) == lot.unrealized_pnl # None /\ lot.unrealized_pnl[1] < 0

\* lines 216-254: the suggestion built for one loss lot, for one rounding of its
\* tax savings; the priority is the model's default until the list is ranked
Suggestion(lot, estimated_loss, tax_savings_estimate, txns, ai) ==
    LET wash == check_prospective_wash_sale_risk(lot.symbol, txns, None)
    IN  [symbol |-> lot.symbol,
         action |-> "SELL",
         quantity |-> lot.quantity,
         current_price |-> lot.current_price,
         cost_basis_per_share |-> lot.cost_basis_per_share,
         estimated_loss |-> estimated_loss,
         tax_savings_estimate |-> tax_savings_estimate,
         holding_period_days |-> Or(lot.holding_period_days, 0),
         is_long_term |-> Or(lot.is_long_term, FALSE),
         wash_sale_risk |-> wash[1],
         wash_sale_explanation |-> wash[2],
         replacement_candidates |-> get_replacements(lot.symbol, ai),
         ai_explanation |-> get_ai_explanation(lot.symbol, ai),
         ai_generated |-> (ai # None /\ lot.symbol \in DOMAIN ai[1]),
         priority |-> 0]

\* the suggestions one loss lot can become: one for each rounding
SuggestionsFor(lot, txns, profile, ai) ==
    LET loss_amount == Abs(lot.unrealized_pnl[1])
        tax_savings == calculate_tax_savings(loss_amount, Or(lot.is_long_term, FALSE),
                                             profile)
    IN  {Suggestion(lot, estimated_loss, tax_savings_estimate, txns, ai) :
            estimated_loss \in RoundCents(FracInt(loss_amount)),
            tax_savings_estimate \in RoundCents(tax_savings)}

\* a mutation of InsertBySavings: the list is left in the order of the lots
InsertBySavingsUnsorted(s, t) == Append(s, t)

\* the place of t in a list sorted by tax_savings_estimate, highest first: after
\* every suggestion that saves as much or more (the sort is stable)
InsertBySavings(s, t) ==
    LET keep == {i \in 1..Len(s) : s[i].tax_savings_estimate >= t.tax_savings_estimate}
        k == Cardinality(keep)
    IN  SubSeq(s, 1, k) \o <<t>> \o SubSeq(s, k + 1, Len(s))

RECURSIVE SortedBySavings(_)
\* line 257: suggestions.sort(key=tax_savings_estimate, reverse=True)
SortedBySavings(s) ==
    IF s = << >> THEN << >>
    ELSE InsertBySavings(SortedBySavings(SubSeq(s, 1, Len(s) - 1)), s[Len(s)])

\* lines 258-259
WithPriorities(s) == [i \in 1..Len(s) |-> [s[i] EXCEPT !.priority = i]]

\* generate_suggestions(tax_lots, transactions, tax_profile, ai_suggestions): the
\* lists it can return, one for each choice of roundings
generate_suggestions(lots, txns, profile, ai) ==
    LET loss_lots == SelectSeq(lots, IsLossLot)
        each == [i \in 1..Len(loss_lots) |-> SuggestionsFor(loss_lots[i], txns, profile, ai)]
    IN  {WithPriorities(SortedBySavings(s)) : s \in Choices(each)}

-----------------------------------------------------------------------------
(* The realized gains of closed positions *)

RECURSIVE fifo_cost_basis_for_sell(_, _, _, _, _)
\* the cost of the quantity of a sale, taken from the purchases of its symbol
\* dated on or before it, oldest first, and what is left of each purchase
fifo_cost_basis_for_sell(sell, buys, remaining, k, left) ==
    IF k > Len(buys) \/ left = 0 THEN [cost |-> 0, remaining |-> remaining]
    ELSE IF /\ buys[k].instrument = sell.instrument
            /\ buys[k].activity_date <= sell.activity_date
            /\ remaining[k] > 0
    THEN LET take == Min(remaining[k], left)
             rest == fifo_cost_basis_for_sell(sell, buys,
                                              [remaining EXCEPT ![k] = @ - take],
                                              k + 1, left - take)
         IN  [cost |-> take * buys[k].price + rest.cost, remaining |-> rest.remaining]
    ELSE fifo_cost_basis_for_sell(sell, buys, remaining, k + 1, left)

RECURSIVE RealizedGainsFrom(_, _, _, _)
\* the gains of the sales from the j-th on: losses are left out of the total
RealizedGainsFrom(sells, buys, remaining, j) ==
    IF j > Len(sells) THEN 0
    ELSE LET matched == fifo_cost_basis_for_sell(sells[j], buys, remaining, 1,
                                                 sells[j].quantity)
             gain == sells[j].quantity * sells[j].price - matched.cost
         IN  (IF gain > 0 THEN gain ELSE 0)
             + RealizedGainsFrom(sells, buys, matched.remaining, j + 1)

compute_realized_gains(txns) ==
    LET buys == SelectSeq(txns, IsBuy)
        sells == SelectSeq(txns, IsSell)
    IN  RealizedGainsFrom(sells, buys, [k \in 1..Len(buys) |-> buys[k].quantity], 1)

-----------------------------------------------------------------------------
(* compute_lot_metrics, then generate_suggestions *)

MaxHarvestLots == 3

Today == 400

Dollars(k) == k * MillsPerDollar

\* Lots bought 366, 365 and 20 days before today; losses of $3000, $2000 and
\* $1000, a loss of half a cent, a gain and a lot without a current price.
HarvestLots ==
    {PricedLot("A", 1, Dollars(4000), Some(Dollars(1000)), d) : d \in {34, 35, 380}}
    \cup {PricedLot("B", 1, Dollars(4000), Some(Dollars(1000)), 34),
          PricedLot("A", 1, Dollars(4000), Some(Dollars(3000)), 34),
          PricedLot("B", 2, Dollars(4000), Some(Dollars(3000)), 380),
          PricedLot("A", 1, 15, Some(10), 34),
          PricedLot("A", 1, Dollars(20), Some(Dollars(30)), 34),
          PricedLot("B", 1, Dollars(4000), None, 34)}

\* No transaction; a purchase of A 30 and 20 days before today; an option on
\* B bought 10 days before today; a position in B closed with a gain of $1000.
HarvestHistories ==
    {<< >>,
     <<Txn("Buy", "A", 370, 1, Dollars(4000))>>,
     <<Txn("Buy", "A", 380, 1, Dollars(4000))>>,
     <<Txn("BTO", "B", 390, 1, Dollars(4000))>>,
     <<Txn("Buy", "B", 1, 1, Dollars(1000)), Txn("Sell", "B", 2, 1, Dollars(2000))>>}

\* the default profile, and one above the NIIT threshold with the lower limit
HarvestProfiles ==
    {DefaultProfile,
     [filing_status |-> "married_filing_separately",
      estimated_annual_income |-> 200000, tax_year |-> 2026]}

HarvestAdvice ==
    {None,
     Some([A |-> [replacements |-> <<Candidate("XLK", "Tech ETF", "good")>>,
                  explanation |-> "AI says harvest this."]])}

InitHarvest ==
    \E n \in 0..MaxHarvestLots : \E lots \in [1..n -> HarvestLots] :
    \E txns \in HarvestHistories, profile \in HarvestProfiles, ai \in HarvestAdvice,
       reference_date \in {None, Some(Today - 1)} :
        /\ transactions = txns
        /\ pc = "metrics"
        /\ sorted_txns = << >>
        /\ idx = 1
        /\ open_lots = << >>
        /\ key_order = << >>
        /\ remaining_to_sell = 0
        /\ warnings = << >>
        /\ tax_lots = lots
        /\ buys_sorted = << >>
        /\ sells_sorted = << >>
        /\ sell_idx = 1
        /\ wash_sale_flags = << >>
        /\ flag_idx = 1
        /\ tax_profile = profile
        /\ ai_suggestions = ai
        /\ today = Today
        /\ suggestions = << >>
        /\ args = [reference_date |-> reference_date]
        /\ result = None
        /\ NoPrices

\* main.py:296: the lots get their metrics
ComputeLotMetrics ==
    /\ pc = "metrics"
    /\ pc' = "suggest"
    /\ tax_lots' \in compute_lot_metrics(tax_lots, args.reference_date)
    /\ UNCHANGED <<priceVars, transactions, aggVars, washVars, tax_profile, ai_suggestions,
                   today, suggestions, args, result>>

\* main.py: the suggestions are generated from the lots with their metrics
GenerateSuggestions ==
    /\ pc = "suggest"
    /\ pc' = "suggested"
    /\ suggestions' \in generate_suggestions(tax_lots, transactions, tax_profile,
                                             ai_suggestions)
    /\ UNCHANGED <<priceVars, transactions, aggVars, tax_lots, washVars, tax_profile,
                   ai_suggestions, today, args, result>>

NextHarvest ==
    \/ ComputeLotMetrics
    \/ GenerateSuggestions

SpecHarvest == InitHarvest /\ [][NextHarvest]_vars

-----------------------------------------------------------------------------
(* _get_replacements called by itself *)

MaxReplacements == 2

\* what the advisor can list: two usable entries, one with an empty ticker, one
\* with no ticker at all
AdvisorReplacements ==
    {[symbol |-> "XLK", name |-> "Tech ETF", reason |-> "good"],
     [symbol |-> "QQQ", name |-> "Invesco QQQ", reason |-> "AI-powered"],
     [symbol |-> "", name |-> "Empty", reason |-> "bad"],
     [name |-> "No ticker", reason |-> "bad"]}

AdvisorLists ==
    UNION {[1..n -> AdvisorReplacements] : n \in 0..MaxReplacements}

\* the advisor's data for one symbol: with or without replacements, with or
\* without an explanation
AdvisorData ==
    {[explanation |-> "AI says harvest this."], << >>}
    \cup {[replacements |-> rs] : rs \in AdvisorLists}
    \cup {[replacements |-> rs, explanation |-> "AI says harvest this."] :
             rs \in AdvisorLists}

\* None, {} and the dicts with data for AAPL, for the unmapped symbol A, or both
AdvisorDicts ==
    {None, Some(<< >>)}
    \cup {Some([s \in {"AAPL"} |-> d]) : d \in AdvisorData}
    \cup {Some([s \in {"A"} |-> d]) : d \in AdvisorData}
    \cup {Some([s \in {"AAPL", "A"} |-> d]) : d \in AdvisorData}

InitReplacements ==
    \E symbol \in {"AAPL", "MSFT", "A", "_DEFAULT"}, ai \in AdvisorDicts :
        /\ NoAnalysis
        /\ pc = "replacements"
        /\ tax_profile = DefaultProfile
        /\ ai_suggestions = ai
        /\ today = 0
        /\ suggestions = << >>
        /\ args = [symbol |-> symbol]
        /\ result = None
        /\ NoPrices

CallGetReplacements ==
    /\ pc = "replacements"
    /\ pc' = "returned"
    /\ result' = [fn |-> "_get_replacements",
                  value |-> get_replacements(args.symbol, ai_suggestions)]
    /\ UNCHANGED <<priceVars, transactions, aggVars, tax_lots, washVars, tax_profile,
                   ai_suggestions, today, suggestions, args>>

CallGetAiExplanation ==
    /\ pc = "replacements"
    /\ pc' = "returned"
    /\ result' = [fn |-> "_get_ai_explanation",
                  value |-> get_ai_explanation(args.symbol, ai_suggestions)]
    /\ UNCHANGED <<priceVars, transactions, aggVars, tax_lots, washVars, tax_profile,
                   ai_suggestions, today, suggestions, args>>

NextReplacements ==
    \/ CallGetReplacements
    \/ CallGetAiExplanation

SpecReplacements == InitReplacements /\ [][NextReplacements]_vars

-----------------------------------------------------------------------------
(* harvesting.py: aggregate_positions *)

RECURSIVE SymbolsInOrder(_)
\* the keys of positions_map, in the order of their first lot
SymbolsInOrder(lots) ==
    IF lots = << >> THEN << >>
    ELSE LET before == SymbolsInOrder(SubSeq(lots, 1, Len(lots) - 1))
             symbol == lots[Len(lots)].symbol
         IN  IF \E i \in 1..Len(before) : before[i] = symbol THEN before
             ELSE Append(before, symbol)

RECURSIVE FracSum(_)
FracSum(s) == IF s = << >> THEN FracInt(0) ELSE FracAdd(Head(s), FracSum(Tail(s)))

RECURSIVE IntSum(_)
IntSum(s) == IF s = << >> THEN 0 ELSE Head(s) + IntSum(Tail(s))

\* lines 146-179: the positions the lots of one symbol can become, one for each
\* choice of roundings
PositionsOf(symbol, lots) ==
    LET total_quantity == IntSum([i \in 1..Len(lots) |-> lots[i].quantity])
        total_cost_basis == FracSum([i \in 1..Len(lots) |-> lots[i].total_cost_basis])
        avg_cost == IF total_quantity > 0
                    THEN Frac(total_cost_basis.n, total_cost_basis.d * total_quantity)
                    ELSE FracInt(0)
        current_price == lots[1].current_price
        priced == current_price # None /\ current_price[1] # 0
        unrealized_pnl == IntSum([i \in 1..Len(lots) |-> Or(lots[i].unrealized_pnl, 0)])
        pcts == IF total_cost_basis.n > 0
                THEN RoundNearest(FracTimes(Frac(unrealized_pnl * total_cost_basis.d,
                                                 total_cost_basis.n), 100 * 100))
                ELSE {0}
        dates == {lots[i].purchase_date : i \in 1..Len(lots)}
        days == {Or(lots[i].holding_period_days, 0) : i \in 1..Len(lots)}
    IN  {[symbol |-> symbol,
          quantity |-> total_quantity,
          avg_cost_basis |-> avg,
          total_cost_basis |-> total,
          current_price |-> current_price,
          market_value |-> IF priced /\ total_quantity # 0
                           THEN Some(current_price[1] * total_quantity) ELSE None,
          unrealized_pnl |-> unrealized_pnl,
          unrealized_pnl_pct |-> pct,
          earliest_purchase_date |-> CHOOSE d \in dates : \A e \in dates : d <= e,
          holding_period_days |-> CHOOSE d \in days : \A e \in days : d >= e,
          is_long_term |-> \E i \in 1..Len(lots) : Or(lots[i].is_long_term, FALSE),
          asset_type |-> lots[1].asset_type,
          tax_lots |-> lots,
          wash_sale_risk |-> \E i \in 1..Len(lots) : lots[i].wash_sale_disallowed > 0] :
            avg \in RoundCents(avg_cost), total \in RoundCents(total_cost_basis),
            pct \in pcts}

\* aggregate_positions(tax_lots): one position for each symbol
aggregate_positions(lots) ==
    LET symbols == SymbolsInOrder(lots)
    IN  Choices([k \in 1..Len(symbols) |->
            PositionsOf(symbols[k], SelectSeq(lots, LAMBDA lot : lot.symbol = symbols[k]))])

-----------------------------------------------------------------------------
(* The analysis from the priced lots on: main.py:296-318 *)

\* A bought on day 320 and sold on day 360, at a loss or at a gain, and bought
\* again 10 or 31 days after the sale.  The lot of the second purchase is open,
\* unless a last sale of A closed it; B can be sold without a purchase.
AnalysisTxns(price, sale_price, repurchase_date, quantity) ==
    <<Txn("Buy", "A", 320, 1, Dollars(price)),
      Txn("Sell", "A", 360, 1, Dollars(sale_price)),
      Txn("Buy", "A", repurchase_date, quantity, Dollars(20))>>

InitAnalysis ==
    \E price \in {30, 40}, sale_price \in {10, 20, 40}, repurchase_date \in {370, 391},
       quantity \in {1, 2}, current_price \in {None, Some(Dollars(30)), Some(Dollars(10))},
       others \in {<< >>, <<PricedLot("B", 1, Dollars(40), Some(Dollars(10)), 34)>>},
       later \in {"none", "A", "B"},
       profile \in HarvestProfiles :
        /\ transactions = AnalysisTxns(price, sale_price, repurchase_date, quantity)
                           \o (IF later = "A"
                               THEN <<Txn("Sell", "A", 395, quantity, Dollars(20))>>
                               ELSE IF later = "B"
                               THEN <<Txn("Sell", "B", 360, 1, Dollars(10))>>
                               ELSE << >>)
        /\ pc = "priced"
        /\ sorted_txns = << >>
        /\ idx = 1
        /\ open_lots = << >>
        /\ key_order = << >>
        /\ remaining_to_sell = 0
        /\ warnings = << >>
        /\ tax_lots = (IF later = "A" THEN << >>
                        ELSE <<PricedLot("A", quantity, Dollars(20), current_price,
                                         repurchase_date)>>) \o others
        /\ buys_sorted = << >>
        /\ sells_sorted = << >>
        /\ sell_idx = 1
        /\ wash_sale_flags = << >>
        /\ flag_idx = 1
        /\ tax_profile = profile
        /\ ai_suggestions = None
        /\ today = Today
        /\ suggestions = << >>
        /\ args = << >>
        /\ result = None
        /\ NoPrices

\* main.py:300: tax_lots = compute_lot_metrics(tax_lots); the detection of line
\* 302 and the adjustment of line 304 follow
AnalysisMetrics ==
    /\ pc = "priced"
    /\ pc' = "aggregated"
    /\ tax_lots' \in compute_lot_metrics(tax_lots, None)
    /\ UNCHANGED <<priceVars, transactions, aggVars, washVars, tax_profile, ai_suggestions,
                   today, suggestions, args, result>>

\* main.py:310-317: the suggestions and the positions
AnalysisSuggest ==
    /\ pc = "done"
    /\ pc' = "analyzed"
    /\ suggestions' \in generate_suggestions(tax_lots, transactions, tax_profile,
                                             ai_suggestions)
    /\ \E positions \in aggregate_positions(tax_lots) :
          result' = [fn |-> "aggregate_positions", value |-> positions]
    /\ UNCHANGED <<priceVars, transactions, aggVars, tax_lots, washVars, tax_profile,
                   ai_suggestions, today, args>>

NextAnalysis ==
    \/ AnalysisMetrics
    \/ DetectBegin
    \/ SkipNoBuys
    \/ SkipNoLoss
    \/ SkipNoRepurchase
    \/ EmitFlag
    \/ DetectReturn
    \/ AdjustMatch
    \/ AdjustNoMatch
    \/ AdjustReturn
    \/ AnalysisSuggest

SpecAnalysis == InitAnalysis /\ [][NextAnalysis]_vars

-----------------------------------------------------------------------------
(* detect_wash_sales called on two sales of one purchase *)

\* 2 A bought on day 0, 1 A sold on day 31 and 1 A sold on day 31 or 32, A bought
\* again from 30 to 32 days after the first sale; B can be sold without a
\* purchase
ReuseTxns(price, first_price, second_price, second_date, quantity, repurchase_date, other) ==
    <<Txn("Buy", "A", 0, 2, price),
      Txn("Sell", "A", 31, 1, first_price),
      Txn("Sell", "A", second_date, 1, second_price),
      Txn("Buy", "A", repurchase_date, quantity, 16)>>
    \o (IF other THEN <<Txn("Sell", "B", 31, 1, 10)>> ELSE << >>)

InitReuse ==
    \E price \in {16, 20}, first_price \in {10, 20}, second_price \in {10, 20},
       second_date \in {31, 32}, quantity \in {1, 2}, repurchase_date \in {61, 62, 63},
       other \in BOOLEAN :
        /\ transactions = ReuseTxns(price, first_price, second_price, second_date,
                                    quantity, repurchase_date, other)
        /\ pc = "aggregated"
        /\ sorted_txns = << >>
        /\ idx = 1
        /\ open_lots = << >>
        /\ key_order = << >>
        /\ remaining_to_sell = 0
        /\ warnings = << >>
        /\ tax_lots = << >>
        /\ buys_sorted = << >>
        /\ sells_sorted = << >>
        /\ sell_idx = 1
        /\ wash_sale_flags = << >>
        /\ flag_idx = 1
        /\ NoHarvest

NextReuse ==
    \/ DetectBegin
    \/ SkipNoBuys
    \/ SkipNoLoss
    \/ SkipNoRepurchase
    \/ EmitFlag
    \/ DetectReturn

SpecReuse == InitReuse /\ [][NextReuse]_vars

-----------------------------------------------------------------------------
(* ai_advisor.py: prepare_positions_for_ai *)

\* a mutation of AiPositions: the record carries the lot's purchase date too
AiPositionsWithDate(lot) ==
    IF lot.unrealized_pnl # None /\ lot.unrealized_pnl[1] < 0
    THEN {<<[symbol |-> lot.symbol,
             quantity |-> lot.quantity,
             unrealized_pnl |-> pnl,
             cost_basis_per_share |-> cps,
             current_price |-> lot.current_price,
             holding_period_days |-> lot.holding_period_days,
             is_long_term |-> lot.is_long_term,
             purchase_date |-> lot.purchase_date]>> :
            pnl \in RoundCentsSigned(FracInt(lot.unrealized_pnl[1])),
            cps \in RoundCents(lot.cost_basis_per_share)}
    ELSE {<< >>}

\* lines 199-208: what one lot appends to positions, with either rounding of a
\* tie
AiPositions(lot) ==
    IF lot.unrealized_pnl # None /\ lot.unrealized_pnl[1] < 0
    THEN {<<[symbol |-> lot.symbol,
             quantity |-> lot.quantity,
             unrealized_pnl |-> pnl,
             cost_basis_per_share |-> cps,
             current_price |-> lot.current_price,
             holding_period_days |-> lot.holding_period_days,
             is_long_term |-> lot.is_long_term]>> :
            pnl \in RoundCentsSigned(FracInt(lot.unrealized_pnl[1])),
            cps \in RoundCents(lot.cost_basis_per_share)}
    ELSE {<< >>}

RECURSIVE Joined(_)
Joined(parts) ==
    IF parts = << >> THEN << >> ELSE Head(parts) \o Joined(Tail(parts))

\* prepare_positions_for_ai(tax_lots): the lists it can return
prepare_positions_for_ai(lots) ==
    {Joined(parts) : parts \in Choices([i \in 1..Len(lots) |-> AiPositions(lots[i])])}

MaxAdvisorLots == 2

\* a lot as the analysis hands it over: the metrics are set; account stands
\* for the fields the advisor is not to see (purchase date, asset type, total
\* and percentage, disallowed loss)
AdvisorLot(symbol, quantity, price, unrealized_pnl, account) ==
    [PricedLot(symbol, quantity, price, Some(Dollars(10)),
               IF account = 1 THEN 34 ELSE 380)
        EXCEPT !.unrealized_pnl = unrealized_pnl,
               !.unrealized_pnl_pct = IF account = 1 THEN None ELSE Some(0 - 50),
               !.holding_period_days = Some(90),
               !.is_long_term = Some(FALSE),
               !.asset_type = IF account = 1 THEN "stock" ELSE "option",
               !.wash_sale_disallowed = IF account = 1 THEN 0 ELSE Dollars(1)]

\* gains, no metric, no change, losses, a loss and a basis that are ties of
\* the rounding to cents
AdvisorLots ==
    UNION {{AdvisorLot("A", 1, Dollars(20), None, account),
            AdvisorLot("A", 1, Dollars(20), Some(0), account),
            AdvisorLot("A", 1, Dollars(8), Some(Dollars(2)), account),
            AdvisorLot("A", 1, Dollars(20), Some(0 - Dollars(10)), account),
            AdvisorLot("B", 2, Dollars(20), Some(0 - Dollars(20)), account),
            AdvisorLot("B", 1, Dollars(10) + 15, Some(0 - 15), account)} :
           account \in {1, 2}}

InitAdvisor ==
    \E n \in 0..MaxAdvisorLots : \E lots \in [1..n -> AdvisorLots] :
    \E user_id \in {"u1", "u2"} :
        /\ transactions = << >>
        /\ sorted_txns = << >>
        /\ idx = 1
        /\ open_lots = << >>
        /\ key_order = << >>
        /\ remaining_to_sell = 0
        /\ warnings = << >>
        /\ tax_lots = lots
        /\ buys_sorted = << >>
        /\ sells_sorted = << >>
        /\ sell_idx = 1
        /\ wash_sale_flags = << >>
        /\ flag_idx = 1
        /\ pc = "advisor"
        /\ tax_profile = DefaultProfile
        /\ ai_suggestions = None
        /\ today = Today
        /\ suggestions = << >>
        /\ args = [user_id |-> user_id]
        /\ result = None
        /\ NoPrices

\* main.py:154: ai_positions = prepare_positions_for_ai(tax_lots)
CallPreparePositions ==
    /\ pc = "advisor"
    /\ pc' = "prepared"
    /\ \E positions \in prepare_positions_for_ai(tax_lots) :
        result' = [fn |-> "prepare_positions_for_ai", value |-> positions]
    /\ UNCHANGED <<priceVars, transactions, aggVars, tax_lots, washVars, tax_profile,
                   ai_suggestions, today, suggestions, args>>

NextAdvisor == CallPreparePositions

SpecAdvisor == InitAdvisor /\ [][NextAdvisor]_vars

-----------------------------------------------------------------------------
(* price_service.py: the price cache and fetch_current_prices *)

CACHE_TTL_SECONDS == 300

\* a mutation of get_cached_price: an entry is still fresh when its age is the
\* TTL
get_cached_price_at_ttl(cache, symbol, now) ==
    IF symbol \in DOMAIN cache /\ now - cache[symbol][2] <= CACHE_TTL_SECONDS
    THEN Some(cache[symbol][1])
    ELSE None

\* _get_cached_price(symbol) when time.time() is now
get_cached_price(cache, symbol, now) ==
    IF symbol \in DOMAIN cache /\ now - cache[symbol][2] < CACHE_TTL_SECONDS
    THEN Some(cache[symbol][1])
    ELSE None

\* _set_cached_price(symbol, price) when time.time() is now: the cache after it
set_cached_price(cache, symbol, price, now) ==
    [s \in DOMAIN cache \cup {symbol} |->
        IF s = symbol THEN <<price, now>> ELSE cache[s]]

\* str.upper() on the symbols of the inputs
Upper(symbol) == IF symbol = "a" THEN "A" ELSE symbol

\* _resolve_cached_prices(symbols): (prices, to_fetch)
resolve_cached_prices(cache, symbols, now) ==
    LET upper == [i \in 1..Len(symbols) |-> Upper(symbols[i])]
        hits == {upper[i] : i \in {j \in 1..Len(upper) :
                                      get_cached_price(cache, upper[j], now) # None}}
    IN  [prices |-> [s \in hits |-> get_cached_price(cache, s, now)[1]],
         to_fetch |-> SelectSeq(upper, LAMBDA s :
                                    get_cached_price(cache, s, now) = None)]

Warning(text, symbols) == [text |-> text, symbols |-> symbols]

\* _download_yfinance_prices(symbols_to_fetch): (prices, warnings); yfinance is
\* what the import and the download do: raise, return no rows, or return the
\* closing prices of some tickers
download_yfinance_prices(symbols_to_fetch, yfinance) ==
    IF yfinance.kind = "ImportError"
    THEN [prices |-> << >>,
          warnings |-> <<Warning("yfinance is not installed", << >>)>>]
    ELSE IF yfinance.kind = "Exception"
    THEN [prices |-> << >>,
          warnings |-> <<Warning("Could not fetch live prices from Yahoo Finance",
                                 << >>)>>]
    ELSE IF yfinance.kind = "empty"
    THEN [prices |-> << >>,
          warnings |-> <<Warning("yfinance returned no data", << >>)>>]
    ELSE LET priced == {symbols_to_fetch[i] : i \in 1..Len(symbols_to_fetch)}
                           \cap DOMAIN yfinance.close
         IN  [prices |-> [s \in priced |-> yfinance.close[s]],
              warnings |-> << >>]

RECURSIVE FallbackScan(_, _, _, _)
\* the loop of lines 145-152 from the i-th symbol on
FallbackScan(symbols, prices, fallback_prices, i) ==
    IF i > Len(symbols) THEN [prices |-> prices, warnings |-> << >>]
    ELSE LET upper == Upper(symbols[i])
         IN  IF upper \notin DOMAIN prices /\ upper \in DOMAIN fallback_prices
             THEN LET rest == FallbackScan(
                                  symbols,
                                  [s \in DOMAIN prices \cup {upper} |->
                                      IF s = upper THEN fallback_prices[upper]
                                      ELSE prices[s]],
                                  fallback_prices, i + 1)
                  IN  [prices |-> rest.prices,
                       warnings |-> <<Warning("Using CSV-provided price", <<upper>>)>>
                                        \o rest.warnings]
             ELSE FallbackScan(symbols, prices, fallback_prices, i + 1)

\* _apply_fallback_prices(symbols, prices, fallback_prices): prices as the call
\* leaves it, and the warnings returned
apply_fallback_prices(symbols, prices, fallback_prices) ==
    LET filled == IF fallback_prices # None /\ DOMAIN fallback_prices[1] # {}
                  THEN FallbackScan(symbols, prices, fallback_prices[1], 1)
                  ELSE [prices |-> prices, warnings |-> << >>]
        upper == [i \in 1..Len(symbols) |-> Upper(symbols[i])]
        missing == SelectSeq(upper, LAMBDA s : s \notin DOMAIN filled.prices)
    IN  [prices |-> filled.prices,
         warnings |-> filled.warnings
                          \o (IF missing # << >>
                              THEN <<Warning("No prices available for", missing)>>
                              ELSE << >>)]

\* fetch_current_prices(symbols, fallback_prices): the prices and warnings
\* returned, the prices it stored in the cache, and whether yf.download was
\* reached
fetch_current_prices(cache, symbols, fallback_prices, yfinance, now) ==
    IF symbols = << >>
    THEN [prices |-> << >>, warnings |-> << >>, stored |-> << >>,
          downloaded |-> FALSE]
    ELSE LET resolved == resolve_cached_prices(cache, symbols, now)
         IN  IF resolved.to_fetch = << >>
             THEN [prices |-> resolved.prices, warnings |-> << >>,
                   stored |-> << >>, downloaded |-> FALSE]
             ELSE LET fetched == download_yfinance_prices(resolved.to_fetch, yfinance)
                      merged == [s \in DOMAIN resolved.prices \cup DOMAIN fetched.prices |->
                                    IF s \in DOMAIN fetched.prices
                                    THEN fetched.prices[s] ELSE resolved.prices[s]]
                      filled == apply_fallback_prices(symbols, merged, fallback_prices)
                 IN  [prices |-> filled.prices,
                      warnings |-> fetched.warnings \o filled.warnings,
                      stored |-> fetched.prices,
                      downloaded |-> yfinance.kind # "ImportError"]

MaxCalls == 3

\* the time that passes before a call: a second, or a second less than the TTL
Delays == {1, CACHE_TTL_SECONDS - 1}

PriceSymbols == {"A", "B"}

Call(fn, symbols, price, time) ==
    [fn |-> fn, symbols |-> symbols, price |-> price, time |-> time]

\* what yfinance does during one run
Yfinance ==
    {[kind |-> k, close |-> << >>] : k \in {"ImportError", "Exception", "empty"}}
    \cup {[kind |-> "data", close |-> << >>],
          [kind |-> "data", close |-> [s \in {"A"} |-> Dollars(30)]],
          [kind |-> "data", close |-> [s \in {"A", "B"} |-> Dollars(30)]]}

InitPrices ==
    \E yfinance \in Yfinance :
        /\ NoAnalysis
        /\ pc = "prices"
        /\ tax_profile = DefaultProfile
        /\ ai_suggestions = None
        /\ today = 0
        /\ suggestions = << >>
        /\ args = [yfinance |-> yfinance]
        /\ result = None
        /\ NoPrices

PriceUnchanged ==
    UNCHANGED <<transactions, pc, aggVars, tax_lots, washVars, tax_profile,
                ai_suggestions, today, suggestions, args>>

SetCachedPrice ==
    /\ pc = "prices"
    /\ Len(calls) < MaxCalls
    /\ \E d \in Delays, symbol \in PriceSymbols, price \in {Dollars(10), Dollars(20)} :
        /\ clock' = clock + d
        /\ price_cache' = set_cached_price(price_cache, symbol, price, clock')
        /\ calls' = Append(calls, Call("_set_cached_price", <<symbol>>, price, clock'))
        /\ result' = [fn |-> "_set_cached_price", value |-> None]
    /\ PriceUnchanged

GetCachedPrice ==
    /\ pc = "prices"
    /\ Len(calls) < MaxCalls
    /\ \E d \in Delays, symbol \in PriceSymbols :
        /\ clock' = clock + d
        /\ calls' = Append(calls, Call("_get_cached_price", <<symbol>>, 0, clock'))
        /\ result' = [fn |-> "_get_cached_price",
                      value |-> get_cached_price(price_cache, symbol, clock')]
    /\ UNCHANGED price_cache
    /\ PriceUnchanged

ClearCache ==
    /\ pc = "prices"
    /\ Len(calls) < MaxCalls
    /\ \E d \in Delays :
        /\ clock' = clock + d
        /\ calls' = Append(calls, Call("clear_cache", << >>, 0, clock'))
    /\ price_cache' = << >>
    /\ result' = [fn |-> "clear_cache", value |-> None]
    /\ PriceUnchanged

RECURSIVE StoreAll(_, _, _, _)
\* lines 111-120: _set_cached_price for every price that was downloaded
StoreAll(cache, symbols, prices, now) ==
    IF symbols = << >> THEN cache
    ELSE StoreAll(IF Head(symbols) \in DOMAIN prices
                  THEN set_cached_price(cache, Head(symbols), prices[Head(symbols)], now)
                  ELSE cache,
                  Tail(symbols), prices, now)

FetchCurrentPrices ==
    /\ pc = "prices"
    /\ Len(calls) < MaxCalls
    /\ \E d \in Delays, symbols \in {<< >>, <<"a">>, <<"A", "B">>},
          fallback_prices \in {None, Some([s \in {"B"} |-> Dollars(5)])} :
        LET value == fetch_current_prices(price_cache, symbols, fallback_prices,
                                          args.yfinance, clock + d)
            upper == [i \in 1..Len(symbols) |-> Upper(symbols[i])]
            stored == SelectSeq(upper, LAMBDA s : s \in DOMAIN value.stored)
        IN  /\ clock' = clock + d
            /\ price_cache' = StoreAll(price_cache, upper, value.stored, clock')
            /\ calls' = Append(calls, Call("fetch_current_prices", symbols, 0, clock'))
                            \o [i \in 1..Len(stored) |->
                                   Call("_set_cached_price", <<stored[i]>>,
                                        value.stored[stored[i]], clock')]
            /\ result' = [fn |-> "fetch_current_prices", value |-> value]
    /\ PriceUnchanged

NextPrices ==
    \/ SetCachedPrice
    \/ GetCachedPrice
    \/ ClearCache
    \/ FetchCurrentPrices

SpecPrices == InitPrices /\ [][NextPrices]_vars

-----------------------------------------------------------------------------
(* Claims about the aggregation *)

RECURSIVE SumQuantity(_)
SumQuantity(s) == IF s = <<>> THEN 0 ELSE Head(s).quantity + SumQuantity(Tail(s))

OfSymbol(s, symbol) == SelectSeq(s, LAMBDA l : l.symbol = symbol)

TxnsOf(s, symbol, codes) ==
    SelectSeq(s, LAMBDA t : t.instrument = symbol /\ t.trans_code \in codes)

OpeningCodes == {"Buy", "BTO", "STO"}

ClosingCodes == {"Sell", "STC", "OEXP", "OASGN"}

Opened(s, symbol) == SumQuantity(TxnsOf(s, symbol, OpeningCodes))

Closed(s, symbol) == SumQuantity(TxnsOf(s, symbol, ClosingCodes))

Instruments == {transactions[i].instrument : i \in 1..Len(transactions)}

Returned == pc = "aggregated"

\* C1 as stated: whenever a symbol's opened total is at least its closed total,
\* the returned lots of the symbol sum to opened minus closed, whatever the
\* dates and the order of the transactions.
C1_ConservationAnyOrder ==
    Returned =>
        \A symbol \in Instruments :
            Opened(transactions, symbol) >= Closed(transactions, symbol) =>
                SumQuantity(OfSymbol(tax_lots, symbol))
                    = Opened(transactions, symbol) - Closed(transactions, symbol)

\* every closing transaction finds, in processing order, at least its quantity open
NeverOversold(symbol) ==
    \A k \in 1..Len(sorted_txns) :
        Closed(SubSeq(sorted_txns, 1, k), symbol)
            <= Opened(SubSeq(sorted_txns, 1, k), symbol)

\* C1 amended: FIFO conservation for the symbols whose closing transactions
\* never exceed, in date-sorted processing order, the quantity opened so far:
\* the returned lots of the symbol sum to opened minus closed.
C1_Conservation ==
    Returned =>
        \A symbol \in Instruments :
            NeverOversold(symbol) =>
                SumQuantity(OfSymbol(tax_lots, symbol))
                    = Opened(transactions, symbol) - Closed(transactions, symbol)

\* a returned list after a sale closed part of what was opened
C1_Witness ==
    /\ Returned
    /\ \E symbol \in Instruments :
          /\ NeverOversold(symbol)
          /\ Closed(transactions, symbol) > 0
          /\ Opened(transactions, symbol) > Closed(transactions, symbol)
          /\ SumQuantity(OfSymbol(tax_lots, symbol)) > 0

AllOpenLots == UNION {{open_lots[s][i] : i \in 1..Len(open_lots[s])} : s \in DOMAIN open_lots}

ReturnedLots == {tax_lots[i] : i \in 1..Len(tax_lots)}

\* C2: no negative quantities: in every state of the aggregation, sales larger
\* than the open quantity included, every open lot and every returned lot has
\* quantity >= 0.
C2_NoNegativeQuantity ==
    \A lot \in AllOpenLots \cup ReturnedLots : lot.quantity >= 0

\* a sale larger than the open quantity has been processed and the lots returned
C2_Witness ==
    /\ Returned
    /\ \E i \in 1..Len(warnings) :
          warnings[i].kind = "could not be matched" /\ warnings[i].quantity > 0
    /\ tax_lots # <<>>

-----------------------------------------------------------------------------
(* Claims about the lots' cost basis *)

\* C3: cost-basis identity: after every mutation of a lot (creation, partial
\* close, wash-sale adjustment, a lot of quantity 0 included) its
\* total_cost_basis equals cost_basis_per_share times quantity.
C3_CostBasisIdentity ==
    \A lot \in AllOpenLots \cup ReturnedLots :
        lot.total_cost_basis.n * lot.cost_basis_per_share.d
            = lot.cost_basis_per_share.n * lot.quantity * lot.total_cost_basis.d

\* a lot of quantity 0 and a lot whose per-share basis became a fraction have
\* both received a wash-sale adjustment
C3_Witness ==
    /\ pc = "done"
    /\ \E lot \in ReturnedLots : lot.quantity = 0 /\ lot.wash_sale_disallowed > 0
    /\ \E lot \in ReturnedLots :
          /\ lot.quantity > 0
          /\ lot.wash_sale_disallowed > 0
          /\ lot.cost_basis_per_share.d > 1

-----------------------------------------------------------------------------
(* Claims about detect_wash_sales *)

Flags == {wash_sale_flags[k] : k \in 1..Len(wash_sale_flags)}

Detected == pc \in {"adjust", "done"} /\ transactions # <<>>

RECURSIVE LedgerMatch(_, _, _, _)
LedgerMatch(idxs, remaining, cost, used) ==
    IF idxs = <<>> \/ remaining <= 0 THEN [cost |-> cost, used |-> used]
    ELSE LET i == Head(idxs)
             available == buys_sorted[i].quantity - used[i]
             matched == Min(available, remaining)
         IN  IF available <= 0 THEN LedgerMatch(Tail(idxs), remaining, cost, used)
             ELSE LedgerMatch(Tail(idxs), remaining - matched,
                              cost + matched * buys_sorted[i].price,
                              [used EXCEPT ![i] = @ + matched])

RECURSIVE LedgerBefore(_)
LedgerBefore(k) ==
    IF k = 1 THEN [i \in 1..Len(buys_sorted) |-> 0]
    ELSE LedgerMatch(symbol_buys(sells_sorted[k - 1]),
                     sells_sorted[k - 1].quantity, 0, LedgerBefore(k - 1)).used

LedgerLoss(k) ==
    LedgerMatch(symbol_buys(sells_sorted[k]), sells_sorted[k].quantity, 0,
                LedgerBefore(k)).cost
        - sells_sorted[k].quantity * sells_sorted[k].price

\* sell k realized a loss, by the code's matching and by the running ledger
RealizedLoss(k) == SaleLoss(sells_sorted[k]) > 0 /\ LedgerLoss(k) > 0

FlagOfSell(f, sell) ==
    /\ f.symbol = sell.instrument
    /\ f.sale_date = sell.activity_date
    /\ f.sale_quantity = sell.quantity

BuysOn(sell, days) ==
    {i \in 1..Len(buys_sorted) :
        /\ buys_sorted[i].instrument = sell.instrument
        /\ buys_sorted[i].activity_date - sell.activity_date \in days}

\* C5: a sale at a loss with a purchase of the same symbol on the sale date has
\* a qualifying repurchase and is flagged.
C5_SameDayRepurchaseFlagged ==
    Detected =>
        \A k \in 1..Len(sells_sorted) :
            (RealizedLoss(k) /\ BuysOn(sells_sorted[k], {0}) # {}) =>
                \E f \in Flags : FlagOfSell(f, sells_sorted[k])

Window == (0 - WASH_SALE_WINDOW_DAYS)..WASH_SALE_WINDOW_DAYS

\* C6, for purchases on other days than the sale (the sale date is C5): a sale
\* at a loss is flagged if and only if a purchase of the same symbol lies from
\* 30 days before to 30 days after it, both ends included.
C6_InclusiveWindow ==
    Detected =>
        \A k \in 1..Len(sells_sorted) :
            (RealizedLoss(k) /\ BuysOn(sells_sorted[k], {0}) = {}) =>
                ((BuysOn(sells_sorted[k], Window) # {})
                    <=> (\E f \in Flags : FlagOfSell(f, sells_sorted[k])))

\* C7: the loss of every flagged sale is computed from the buy quantity that
\* the earlier sells have not consumed: the flag added for sell k carries the
\* loss of the running ledger.
C7_RunningLedger ==
    [][(pc = "detect" /\ Len(wash_sale_flags') = Len(wash_sale_flags) + 1) =>
          wash_sale_flags'[Len(wash_sale_flags')].sale_loss = LedgerLoss(sell_idx)]_vars

\* the sells with a loss (as the code computes it) and a purchase in the window
QualifyingSells ==
    SelectSeq(sells_sorted, LAMBDA sell :
        /\ symbol_buys(sell) # <<>>
        /\ SaleLoss(sell) > 0
        /\ BuysOn(sell, Window) # {})

RECURSIVE QuantityOfBuys(_)
QuantityOfBuys(S) ==
    IF S = {} THEN 0
    ELSE LET i == CHOOSE j \in S : TRUE
         IN  buys_sorted[i].quantity + QuantityOfBuys(S \ {i})

\* C8: exactly one flag for each sale with a loss and a qualifying repurchase,
\* in order, and none for another sale; each flag carries the earliest
\* qualifying repurchase date and min(total qualifying quantity, sale quantity).
C8_OneFlagPerQualifyingSale ==
    Detected =>
        /\ Len(wash_sale_flags) = Len(QualifyingSells)
        /\ \A k \in 1..Len(wash_sale_flags) :
              LET f == wash_sale_flags[k]
                  sell == QualifyingSells[k]
                  Q == BuysOn(sell, Window)
              IN  /\ FlagOfSell(f, sell)
                  /\ \A i \in Q : f.repurchase_date <= buys_sorted[i].activity_date
                  /\ \E i \in Q : f.repurchase_date = buys_sorted[i].activity_date
                  /\ f.repurchase_quantity = Min(QuantityOfBuys(Q), sell.quantity)

\* C9: no flag for a sale whose FIFO-matched cost basis minus proceeds is <= 0:
\* whenever a flag is added for sell k, the running ledger gives sell k a loss.
C9_NoFlagOnGain ==
    [][(pc = "detect" /\ Len(wash_sale_flags') = Len(wash_sale_flags) + 1) =>
          LedgerLoss(sell_idx) > 0]_vars

-----------------------------------------------------------------------------
(* Claims about adjust_lots_for_wash_sales *)

SameButBasis(new, old) ==
    /\ new.symbol = old.symbol
    /\ new.quantity = old.quantity
    /\ new.purchase_date = old.purchase_date
    /\ new.asset_type = old.asset_type

\* new is old with disallowed added to wash_sale_disallowed and
\* disallowed / quantity added to cost_basis_per_share
Adjusted(new, old, disallowed) ==
    /\ SameButBasis(new, old)
    /\ new.wash_sale_disallowed = old.wash_sale_disallowed + disallowed
    /\ old.quantity > 0 =>
          new.cost_basis_per_share.n * old.cost_basis_per_share.d * old.quantity
              = (old.cost_basis_per_share.n * old.quantity
                    + disallowed * old.cost_basis_per_share.d)
                * new.cost_basis_per_share.d
    /\ old.quantity = 0 => new.cost_basis_per_share = old.cost_basis_per_share

\* C10: the step for a flag changes only a lot of the flag's symbol and
\* repurchase date, by the flag's disallowed loss; every other lot stays as it
\* is; without such a lot, and at the return, no lot changes; the number of
\* lots never changes.
C10_AdjustFrame ==
    [][pc = "adjust" =>
          /\ Len(tax_lots') = Len(tax_lots)
          /\ flag_idx > Len(wash_sale_flags) => tax_lots' = tax_lots
          /\ flag_idx <= Len(wash_sale_flags) =>
                LET f == wash_sale_flags[flag_idx]
                    M == {j \in 1..Len(tax_lots) :
                            /\ tax_lots[j].symbol = f.symbol
                            /\ tax_lots[j].purchase_date = f.repurchase_date}
                IN  /\ \A j \in (1..Len(tax_lots)) \ M : tax_lots'[j] = tax_lots[j]
                    /\ M = {} => tax_lots' = tax_lots
                    /\ M # {} =>
                          \E j \in M :
                              /\ Adjusted(tax_lots'[j], tax_lots[j], f.disallowed_loss)
                              /\ \A m \in M \ {j} : tax_lots'[m] = tax_lots[m]]_vars

\* two flags have been applied: one lot was adjusted, a lot of the same symbol
\* bought on another day and a lot of another symbol were not
C10_Witness ==
    /\ pc = "done"
    /\ Len(wash_sale_flags) = 2
    /\ \E i, j \in 1..Len(tax_lots) :
          /\ tax_lots[i].wash_sale_disallowed > 0
          /\ tax_lots[j].wash_sale_disallowed = 0
          /\ tax_lots[j].symbol = tax_lots[i].symbol
          /\ tax_lots[j].purchase_date # tax_lots[i].purchase_date
    /\ \E f \in Flags : \A j \in 1..Len(tax_lots) : tax_lots[j].symbol # f.symbol

-----------------------------------------------------------------------------
(* Claims about the tax engine *)

Returned_(fn) == pc = "returned" /\ result.fn = fn

Income == tax_profile.estimated_annual_income

\* C15: tax savings are never negative: calculate_tax_savings returns exactly 0
\* for every loss <= 0 and a value >= 0 for every loss > 0, whatever the filing
\* status, income, tax year and long/short-term flag.
C15_TaxSavingsNonNegative ==
    Returned_("calculate_tax_savings") =>
        /\ args.loss <= 0 => result.value = FracInt(0)
        /\ args.loss > 0 => result.value.n >= 0 /\ result.value.d > 0

\* savings were computed for a negative amount under a rate with the NIIT added
C15_Witness ==
    /\ Returned_("calculate_tax_savings")
    /\ args.loss < 0
    /\ result.value = FracInt(0)
    /\ calculate_tax_on_gain(args.loss, args.is_long_term,
                             tax_profile).effective_rate > NIIT_RATE
    /\ check_niit(Income, tax_profile)

\* The rate of the first bracket, in table order, whose upper bound is at least
\* the income.
IsFirstBracketRate(filing_brackets, income, rate) ==
    \E k \in 1..Len(filing_brackets) :
        /\ filing_brackets[k][1] >= income
        /\ \A j \in 1..(k - 1) : filing_brackets[j][1] < income
        /\ rate = filing_brackets[k][2]

OrdinaryTable == get_ordinary_brackets(tax_profile.tax_year)[tax_profile.filing_status]

LtcgTable == get_ltcg_brackets(tax_profile.tax_year)[tax_profile.filing_status]

\* C16: bracket lookup: both lookups return the rate of the first bracket whose
\* upper bound is >= income, so an income equal to a bound gets that bracket's
\* rate; calculate_tax_on_gain takes the ordinary table for a short-term amount
\* and the long-term table for a long-term one.
C16_BracketLookup ==
    /\ Returned_("get_marginal_ordinary_rate") =>
          IsFirstBracketRate(OrdinaryTable, Income, result.value)
    /\ Returned_("get_ltcg_rate") =>
          IsFirstBracketRate(LtcgTable, Income, result.value)
    /\ Returned_("calculate_tax_on_gain") =>
          /\ IsFirstBracketRate(OrdinaryTable, Income, result.value.short_term_rate)
          /\ IsFirstBracketRate(LtcgTable, Income, result.value.long_term_rate)
          /\ LET base_rate == result.value.effective_rate
                              - (IF result.value.niit_applies THEN NIIT_RATE ELSE 0)
             IN  base_rate = IF args.is_long_term THEN result.value.long_term_rate
                             ELSE result.value.short_term_rate

\* a lookup returned for an income equal to the upper bound of a bracket that is
\* not the last one
C16_Witness ==
    /\ Returned_("get_marginal_ordinary_rate")
    /\ \E k \in 1..(Len(OrdinaryTable) - 1) :
          /\ OrdinaryTable[k][1] = Income
          /\ result.value = OrdinaryTable[k][2]
          /\ result.value # OrdinaryTable[k + 1][2]

\* C17: the NIIT threshold is strict: calculate_tax_on_gain adds 3.8% to the
\* effective rate if and only if the estimated annual income is strictly greater
\* than the threshold of the filing status.
C17_NiitStrict ==
    /\ Returned_("calculate_tax_on_gain") =>
          LET base_rate == IF args.is_long_term THEN result.value.long_term_rate
                           ELSE result.value.short_term_rate
              above == Income > NIIT_THRESHOLDS[tax_profile.filing_status]
          IN  /\ result.value.niit_applies = above
              /\ result.value.effective_rate
                    = IF above THEN base_rate + NIIT_RATE ELSE base_rate
    /\ Returned_("check_niit") =>
          result.value = (Income > NIIT_THRESHOLDS[tax_profile.filing_status])

\* the tax on a gain was computed for an income equal to the threshold
C17_Witness ==
    /\ Returned_("calculate_tax_on_gain")
    /\ Income = NIIT_THRESHOLDS[tax_profile.filing_status]
    /\ ~result.value.niit_applies
    /\ args.loss > 0

-----------------------------------------------------------------------------
(* Claims about the prospective wash-sale risk *)

RiskRef == IF args.reference_date = None THEN today ELSE args.reference_date[1]

\* dates of the purchases (BUY, BTO) of the symbol in the trailing 30 days
TrailingPurchaseDates ==
    {transactions[i].activity_date : i \in
        {j \in 1..Len(transactions) :
            /\ transactions[j].instrument = args.symbol
            /\ transactions[j].trans_code \in {"Buy", "BTO"}
            /\ RiskRef - 30 <= transactions[j].activity_date
            /\ transactions[j].activity_date <= RiskRef}}

-----------------------------------------------------------------------------
(* Claims about the replacement candidates *)

\* the advisor supplies, for the symbol, a replacement with a non-empty ticker
AdvisorUsable(symbol, ai) ==
    /\ ai # None
    /\ symbol \in DOMAIN ai[1]
    /\ "replacements" \in DOMAIN ai[1][symbol]
    /\ \E i \in 1..Len(ai[1][symbol].replacements) :
          /\ "symbol" \in DOMAIN ai[1][symbol].replacements[i]
          /\ ai[1][symbol].replacements[i].symbol # ""

StaticEntries(symbol) ==
    IF symbol \in DOMAIN FALLBACK_REPLACEMENTS THEN FALLBACK_REPLACEMENTS[symbol]
    ELSE FALLBACK_REPLACEMENTS["_DEFAULT"]

\* C20: replacement fallback: when the advisor data is absent, lacks the symbol or
\* supplies no replacement with a non-empty ticker, _get_replacements returns the
\* static table's entries for the symbol, or the default pair (VTI, SPY) for an
\* unmapped symbol; no returned replacement has an empty ticker and the returned
\* list is never empty.
C20_ReplacementFallback ==
    Returned_("_get_replacements") =>
        /\ ~AdvisorUsable(args.symbol, ai_suggestions) =>
              result.value = StaticEntries(args.symbol)
        /\ \A i \in 1..Len(result.value) : result.value[i].symbol # ""
        /\ result.value # << >>

-----------------------------------------------------------------------------
(* Claims about the lot metrics and the suggestions *)

MetricsRef == IF args.reference_date = None THEN today ELSE args.reference_date[1]

HeldDays(lot) == MetricsRef - lot.purchase_date

\* C14: long-term boundary: for every lot and reference date, compute_lot_metrics
\* sets holding_period_days to the reference date minus the purchase date in days
\* and is_long_term to holding_period_days > 365; a lot held exactly 365 days is
\* short-term and one held 366 days is long-term.
C14_LongTermBoundary ==
    [][pc = "metrics" =>
          /\ Len(tax_lots') = Len(tax_lots)
          /\ \A i \in 1..Len(tax_lots) :
                /\ tax_lots'[i].purchase_date = tax_lots[i].purchase_date
                /\ tax_lots'[i].holding_period_days = Some(HeldDays(tax_lots[i]))
                /\ tax_lots'[i].is_long_term = Some(HeldDays(tax_lots[i]) > 365)
                /\ HeldDays(tax_lots[i]) = 365 => tax_lots'[i].is_long_term = Some(FALSE)
                /\ HeldDays(tax_lots[i]) = 366 => tax_lots'[i].is_long_term = Some(TRUE)]_vars

\* the metrics are computed for a lot held 365 days and a lot held 366 days
C14_Witness ==
    /\ pc = "suggest"
    /\ \E i, j \in 1..Len(tax_lots) :
          /\ tax_lots[i].holding_period_days = Some(365)
          /\ tax_lots[i].is_long_term = Some(FALSE)
          /\ tax_lots[j].holding_period_days = Some(366)
          /\ tax_lots[j].is_long_term = Some(TRUE)


\* C13: ranking order: the list returned by generate_suggestions is sorted by
\* tax_savings_estimate in non-increasing order, and the priority fields are
\* exactly 1, 2, ..., N in list order, with no gap and no duplicate.
C13_RankingOrder ==
    pc = "suggested" =>
        /\ \A i, j \in 1..Len(suggestions) :
              i < j => suggestions[i].tax_savings_estimate
                           >= suggestions[j].tax_savings_estimate
        /\ \A i \in 1..Len(suggestions) : suggestions[i].priority = i
        /\ {suggestions[i].priority : i \in 1..Len(suggestions)} = 1..Len(suggestions)

\* three loss lots given with the smallest loss first are ranked, the largest
\* saving first
C13_Witness ==
    /\ pc = "suggested"
    /\ Len(tax_lots) = 3
    /\ Len(suggestions) = 3
    /\ tax_lots[1].unrealized_pnl[1] > tax_lots[2].unrealized_pnl[1]
    /\ tax_lots[2].unrealized_pnl[1] > tax_lots[3].unrealized_pnl[1]
    /\ suggestions[1].tax_savings_estimate > suggestions[2].tax_savings_estimate
    /\ suggestions[2].tax_savings_estimate > suggestions[3].tax_savings_estimate
    /\ suggestions[1].estimated_loss = Abs(tax_lots[3].unrealized_pnl[1])


\* the history holds a BUY or BTO of the symbol in the trailing 30 days of today
RecentlyBought(symbol) ==
    \E i \in 1..Len(transactions) :
        /\ transactions[i].instrument = symbol
        /\ transactions[i].trans_code \in {"Buy", "BTO"}
        /\ today - 30 <= transactions[i].activity_date
        /\ transactions[i].activity_date <= today

\* C11: wash-risk exclusion: generate_suggestions returns no suggestion for a loss
\* lot whose symbol has prospective wash-sale risk, that is, whose transaction
\* history contains a BUY/BTO of that symbol within the trailing 30 days of the
\* evaluation date (in particular the purchase that created the lot itself).
C11_WashRiskExclusion ==
    pc = "suggested" =>
        \A i \in 1..Len(suggestions) : ~RecentlyBought(suggestions[i].symbol)

RECURSIVE EstimatedLossSum(_, _)
\* the cumulative estimated loss of the first k suggestions
EstimatedLossSum(s, k) ==
    IF k = 0 THEN 0 ELSE EstimatedLossSum(s, k - 1) + s[k].estimated_loss

HarvestTarget ==
    compute_realized_gains(transactions) + Dollars(get_capital_loss_limit(tax_profile))

\* C12: harvest-target capping: with target = realized gains of closed positions
\* (gains only) + the capital-loss limit (3000, or 1500 for married filing
\* separately), generate_suggestions adds ranked suggestions in order and stops
\* once the cumulative estimated loss of the suggestions already added meets or
\* exceeds the target, and it returns at least one suggestion whenever any loss
\* lot exists.
C12_HarvestTargetCapping ==
    pc = "suggested" =>
        /\ (\E i \in 1..Len(tax_lots) : IsLossLot(tax_lots[i])) => suggestions # << >>
        /\ \A i \in 2..Len(suggestions) :
              EstimatedLossSum(suggestions, i - 1) < HarvestTarget
        /\ Len(suggestions) < Len(SelectSeq(tax_lots, IsLossLot)) =>
              EstimatedLossSum(suggestions, Len(suggestions)) >= HarvestTarget

-----------------------------------------------------------------------------
(* Claims about the sales that cannot be matched *)

RECURSIVE OpenQuantityAfter(_, _)
\* the open quantity of a symbol after the first k transactions in date order,
\* when a sale closes what is open and its excess is dropped
OpenQuantityAfter(symbol, k) ==
    IF k = 0 THEN 0
    ELSE LET t == sorted_txns[k]
             before == OpenQuantityAfter(symbol, k - 1)
         IN  IF t.instrument # symbol THEN before
             ELSE IF t.trans_code \in {"Buy", "BTO"} THEN before + t.quantity
             ELSE IF t.trans_code \in {"Sell", "STC"}
                  THEN (IF t.quantity > before THEN 0 ELSE before - t.quantity)
             ELSE before

NoOpenLotsWarning(t) ==
    [kind |-> "no open lots found", symbol |-> t.instrument, quantity |-> t.quantity]

UnmatchedWarning(t, remainder) ==
    [kind |-> "could not be matched", symbol |-> t.instrument, quantity |-> remainder]

\* C18: unmatched sells are warnings, never errors: a SELL/STC for a symbol with no
\* open lot appends one warning naming 'no open lots found' and changes no lot; a
\* SELL/STC whose quantity exceeds the open quantity closes every open lot of that
\* symbol, appends one warning containing 'could not be matched' with the
\* unmatched remainder, and the excess is dropped; in neither case does
\* transactions_to_tax_lots raise or stop processing later transactions.
C18_UnmatchedSellsWarn ==
    [][/\ (InLoop /\ CurTxn.trans_code \in {"Sell", "STC"}
              /\ LotsOf(CurTxn.instrument) = << >>) =>
             /\ warnings' = Append(warnings, NoOpenLotsWarning(CurTxn))
             /\ open_lots' = open_lots
             /\ pc' = "loop"
             /\ idx' = idx + 1
       /\ (pc = "closing" /\ pc' = "closing") => warnings' = warnings
       /\ (pc = "closing" /\ pc' # "closing") =>
             LET open == OpenQuantityAfter(CurTxn.instrument, idx - 1)
             IN  /\ pc' = "loop"
                 /\ idx' = idx + 1
                 /\ \A s \in DOMAIN open_lots' :
                       SumQuantity(open_lots'[s]) = OpenQuantityAfter(s, idx)
                 /\ IF CurTxn.quantity > open
                    THEN /\ \A s \in DOMAIN open_lots' :
                               s = CurTxn.instrument => open_lots'[s] = << >>
                         /\ warnings' = Append(warnings,
                               UnmatchedWarning(CurTxn, CurTxn.quantity - open))
                    ELSE warnings' = warnings]_vars

\* every transaction was processed: a sale with no open lot, a purchase, and a
\* sale of more than the purchase, each sale with its warning
C18_Witness ==
    /\ pc = "aggregated"
    /\ Len(warnings) = 2
    /\ warnings[1].kind = "no open lots found"
    /\ warnings[2].kind = "could not be matched"
    /\ warnings[2].quantity = 1
    /\ tax_lots = << >>

-----------------------------------------------------------------------------
(* Claims about the order of the analysis *)

\* the metrics of a lot are those of its own cost basis
MetricsOfOwnBasis(lot) ==
    lot.current_price # None =>
        /\ lot.unrealized_pnl # None
        /\ lot.unrealized_pnl[1] \in RoundCentsSigned(UnrealizedPnl(lot))
        /\ lot.unrealized_pnl_pct # None
        /\ lot.unrealized_pnl_pct[1] \in UnrealizedPnlPct(lot, lot.unrealized_pnl[1])

\* C21: pipeline order: in one analysis the wash-sale lot cost-basis adjustment
\* happens before the per-lot metric computation, so the unrealized P&L and
\* percentage reported for a lot that received a wash-sale adjustment are computed
\* from its adjusted cost_basis_per_share, and suggestions and positions are built
\* from those values.
C21_PipelineOrder ==
    pc = "analyzed" =>
        /\ \A i \in 1..Len(tax_lots) :
              tax_lots[i].wash_sale_disallowed > 0 => MetricsOfOwnBasis(tax_lots[i])
        /\ \A k \in 1..Len(result.value) :
              \A i \in 1..Len(result.value[k].tax_lots) :
                 result.value[k].tax_lots[i].wash_sale_disallowed > 0 =>
                    MetricsOfOwnBasis(result.value[k].tax_lots[i])
        /\ \A i \in 1..Len(tax_lots) :
              (/\ tax_lots[i].wash_sale_disallowed > 0
               /\ tax_lots[i].current_price # None
               /\ \A pnl \in RoundCentsSigned(UnrealizedPnl(tax_lots[i])) : pnl < 0) =>
                 \E j \in 1..Len(suggestions) :
                    /\ suggestions[j].symbol = tax_lots[i].symbol
                    /\ suggestions[j].cost_basis_per_share = tax_lots[i].cost_basis_per_share
                    /\ suggestions[j].estimated_loss
                          \in {Abs(pnl) : pnl \in RoundCentsSigned(UnrealizedPnl(tax_lots[i]))}

-----------------------------------------------------------------------------
(* Claims about the order and the effect of the aggregation's steps *)

RECURSIVE AfterSale(_, _)
\* what a sale of q leaves of a symbol's lots: whole lots are taken from the
\* front, the first lot larger than the remainder keeps the difference, and
\* its basis per share
AfterSale(lots, q) ==
    IF lots = << >> \/ q <= 0 THEN lots
    ELSE IF Head(lots).quantity <= q
         THEN AfterSale(Tail(lots), q - Head(lots).quantity)
         ELSE <<[Head(lots) EXCEPT
                    !.quantity = Head(lots).quantity - q,
                    !.total_cost_basis =
                        FracTimes(Head(lots).cost_basis_per_share,
                                  Head(lots).quantity - q)]>> \o Tail(lots)

\* C22: expiration/assignment removes like a sale: for every state of the open
\* lots and every quantity q, processing an OEXP or OASGN of q for a symbol
\* leaves exactly the same open lots (same lots, quantities and cost bases, in
\* the same order) as processing a SELL of q for that symbol would.
C22_ExpirationLikeSale ==
    [][(InLoop /\ CurTxn.trans_code \in {"OEXP", "OASGN"}) =>
          /\ pc' = "loop"
          /\ idx' = idx + 1
          /\ \A s \in DOMAIN open_lots' :
                open_lots'[s] = IF s = CurTxn.instrument
                                THEN AfterSale(LotsOf(s), CurTxn.quantity)
                                ELSE LotsOf(s)]_vars

RECURSIVE ExpectedLots(_, _)
\* the lots of a symbol after the first k transactions in the order of
\* processing: purchases are appended, sales take from the front
ExpectedLots(symbol, k) ==
    IF k = 0 THEN << >>
    ELSE LET t == sorted_txns[k]
             before == ExpectedLots(symbol, k - 1)
         IN  IF t.instrument # symbol THEN before
             ELSE IF t.trans_code \in {"Buy", "BTO"}
                  THEN Append(before,
                         [symbol |-> symbol,
                          quantity |-> t.quantity,
                          cost_basis_per_share |-> FracInt(t.price),
                          total_cost_basis |-> FracInt(t.price * t.quantity),
                          purchase_date |-> t.activity_date,
                          asset_type |-> IF t.trans_code = "BTO" THEN "option"
                                         ELSE "stock",
                          wash_sale_disallowed |-> 0])
             ELSE IF t.trans_code \in {"Sell", "STC"} THEN AfterSale(before, t.quantity)
             ELSE before

\* C23: strict FIFO closing order: when a SELL/STC of a symbol is processed,
\* quantity is taken from that symbol's lots in insertion (oldest-first) order; a
\* lot is decremented or removed only if every older lot of the same symbol has
\* been completely removed, the per-share cost basis of a partially consumed lot
\* is unchanged, and lots of other symbols are untouched.
C23_StrictFifo ==
    [][/\ (pc = "closing" /\ pc' = "closing") =>
             LET symbol == CurTxn.instrument
                 lots == LotsOf(symbol)
             IN  /\ \A s \in DOMAIN open_lots : s # symbol => open_lots'[s] = open_lots[s]
                 /\ Len(open_lots'[symbol]) \in {Len(lots), Len(lots) - 1}
                 /\ Len(open_lots'[symbol]) = Len(lots) - 1 =>
                       open_lots'[symbol] = Tail(lots)
                 /\ Len(open_lots'[symbol]) = Len(lots) =>
                       /\ Tail(open_lots'[symbol]) = Tail(lots)
                       /\ open_lots'[symbol][1].quantity < lots[1].quantity
                       /\ open_lots'[symbol][1].quantity > 0
                       /\ open_lots'[symbol][1].cost_basis_per_share
                             = lots[1].cost_basis_per_share
                       /\ open_lots'[symbol][1].purchase_date = lots[1].purchase_date
       /\ pc' = "loop" =>
             \A s \in DOMAIN open_lots' : open_lots'[s] = ExpectedLots(s, idx' - 1)]_vars

\* a sale of 2 after purchases of 1 and of 2: the older lot is gone and the
\* newer one keeps 1 at its own basis per share
C23_Witness ==
    /\ pc = "loop"
    /\ idx = 4
    /\ sorted_txns[1].trans_code = "Buy" /\ sorted_txns[1].quantity = 1
    /\ sorted_txns[2].trans_code = "Buy" /\ sorted_txns[2].quantity = 2
    /\ sorted_txns[2].activity_date > sorted_txns[1].activity_date
    /\ sorted_txns[3].trans_code = "Sell" /\ sorted_txns[3].quantity = 2
    /\ \A i \in 1..3 : sorted_txns[i].instrument = "A"
    /\ Len(LotsOf("A")) = 1
    /\ LotsOf("A")[1].quantity = 1
    /\ LotsOf("A")[1].purchase_date = sorted_txns[2].activity_date
    /\ LotsOf("A")[1].cost_basis_per_share = FracInt(sorted_txns[2].price)

\* C26: every lot returned by transactions_to_tax_lots has quantity strictly
\* greater than 0, for every transaction list whose quantities are >= 0
\* (including transactions of quantity 0).
C26_PositiveQuantity ==
    pc = "aggregated" => \A i \in 1..Len(tax_lots) : tax_lots[i].quantity > 0

\* C27: codes without lot effect: processing a corporate-action transaction (SPR,
\* OCA) or a BUY_TO_CLOSE (BTC) in transactions_to_tax_lots leaves the open lots
\* of every symbol and the warnings list unchanged and the processing goes on to
\* the next transaction; in particular a BTC does not close the lot opened by an
\* earlier SELL_TO_OPEN of the same symbol.
C27_CodesWithoutEffect ==
    [][(InLoop /\ CurTxn.trans_code \in {"SPR", "OCA", "BTC"}) =>
          /\ open_lots' = open_lots
          /\ warnings' = warnings
          /\ pc' = "loop"
          /\ idx' = idx + 1]_vars


\* the orders in which a list of n transactions can be processed
Orders(n) == {p \in [1..n -> 1..n] : \A i, j \in 1..n : i # j => p[i] # p[j]}

\* p processes the transactions by date, those of one date in input order
ByDateThenInput(p) ==
    \A i, j \in 1..Len(transactions) :
        i < j =>
            \/ transactions[p[i]].activity_date < transactions[p[j]].activity_date
            \/ /\ transactions[p[i]].activity_date = transactions[p[j]].activity_date
               /\ p[i] < p[j]

\* C25: stable date ordering: transactions_to_tax_lots processes transactions in
\* non-decreasing activity-date order, and transactions with the same activity
\* date in their original input order; hence a same-day SELL listed before the BUY
\* it would close is processed first and is reported as unmatched while the BUY's
\* lot stays open.
C25_StableDateOrder ==
    [][/\ (pc = "loop" /\ pc' # "raised") =>
             /\ Len(sorted_txns) = Len(transactions)
             /\ \E p \in Orders(Len(transactions)) :
                   /\ ByDateThenInput(p)
                   /\ \A i \in 1..Len(transactions) : sorted_txns[i] = transactions[p[i]]
             /\ idx' \in {idx, idx + 1}
             /\ sorted_txns' = sorted_txns
       /\ (/\ pc' = "aggregated"
           /\ Len(transactions) = 2
           /\ transactions[1].trans_code \in {"Sell", "STC"}
           /\ transactions[2].trans_code \in {"Buy", "BTO"}
           /\ transactions[1].instrument = transactions[2].instrument
           /\ transactions[1].activity_date = transactions[2].activity_date) =>
             /\ warnings' = <<NoOpenLotsWarning(transactions[1])>>
             /\ Len(tax_lots') = 1
             /\ tax_lots'[1].quantity = transactions[2].quantity
             /\ tax_lots'[1].purchase_date = transactions[2].activity_date]_vars

\* a sale listed before a purchase of the same day was processed first: it is
\* warned about and the purchase's lot is returned
C25_Witness ==
    /\ pc = "aggregated"
    /\ Len(transactions) = 2
    /\ transactions[1].trans_code = "Sell"
    /\ transactions[2].trans_code = "Buy"
    /\ transactions[1].instrument = transactions[2].instrument
    /\ transactions[1].activity_date = transactions[2].activity_date
    /\ transactions[1].quantity = 1
    /\ Len(warnings) = 1
    /\ warnings[1].kind = "no open lots found"
    /\ Len(tax_lots) = 1

-----------------------------------------------------------------------------
(* Claims about the purchases that count as repurchases *)

BuysOf(symbol) == {i \in 1..Len(buys_sorted) : buys_sorted[i].instrument = symbol}

SellsOf(symbol) == {k \in 1..Len(sells_sorted) : sells_sorted[k].instrument = symbol}

\* sell k is the only sale of its symbol, and the symbol's only purchase is one
\* made before it, of at least the quantity sold and at a higher price: the
\* purchase whose shares the sale closes at a loss
ClosesItsOnlyPurchase(k) ==
    LET sell == sells_sorted[k]
    IN  /\ SellsOf(sell.instrument) = {k}
        /\ Cardinality(BuysOf(sell.instrument)) = 1
        /\ \A i \in BuysOf(sell.instrument) :
              /\ buys_sorted[i].activity_date < sell.activity_date
              /\ buys_sorted[i].quantity >= sell.quantity
              /\ buys_sorted[i].price > sell.price
        /\ sell.quantity > 0

\* C29: the purchase that created the position being sold is never counted as a
\* qualifying repurchase of its own sale: a sell at a loss whose only same-symbol
\* buy is the buy whose shares it closes produces no wash-sale flag, even when
\* that buy is dated within 30 days before the sale.
C29_OwnPurchaseNotRepurchase ==
    Detected =>
        \A k \in 1..Len(sells_sorted) :
            ClosesItsOnlyPurchase(k) =>
                ~\E f \in Flags : FlagOfSell(f, sells_sorted[k])


RECURSIVE RepurchaseQuantitySum(_)
RepurchaseQuantitySum(flags) ==
    IF flags = << >> THEN 0
    ELSE Head(flags).repurchase_quantity + RepurchaseQuantitySum(Tail(flags))

\* the purchases of a symbol within 30 days of a flagged sale of it
RepurchasesOf(symbol) ==
    {i \in BuysOf(symbol) :
        \E f \in Flags :
            /\ f.symbol = symbol
            /\ buys_sorted[i].activity_date - f.sale_date \in Window}

\* C30: repurchase quantity is not reused across wash sales: over all flags
\* produced by one detect_wash_sales call, the repurchase quantity attributed to
\* a single buy transaction never exceeds that buy's quantity, so one repurchase
\* of n shares cannot disallow the losses of several sells totalling more than n
\* shares: the flags of a symbol carry no more repurchase quantity than the
\* purchases in the windows of its flagged sales hold.
C30_RepurchaseNotReused ==
    Detected =>
        \A symbol \in Instruments :
            RepurchaseQuantitySum(SelectSeq(wash_sale_flags,
                                            LAMBDA f : f.symbol = symbol))
                <= QuantityOfBuys(RepurchasesOf(symbol))

-----------------------------------------------------------------------------
(* Claims about what is handed to the advisor *)

AdvisorKeys ==
    {"symbol", "quantity", "unrealized_pnl", "cost_basis_per_share",
     "current_price", "holding_period_days", "is_long_term"}

LossLots(lots) ==
    SelectSeq(lots, LAMBDA lot : lot.unrealized_pnl # None /\ lot.unrealized_pnl[1] < 0)

\* the lots with every field outside the seven set to one value
Scrubbed(lots) ==
    [i \in 1..Len(lots) |->
        [lots[i] EXCEPT !.purchase_date = 0,
                        !.asset_type = "stock",
                        !.total_cost_basis = FracInt(0),
                        !.unrealized_pnl_pct = None,
                        !.wash_sale_disallowed = 0]]

-----------------------------------------------------------------------------
(* Claims about the price cache *)

\* the calls among the first n that write the cache entry of a symbol
WritesOf(symbol, n) ==
    {k \in 1..n :
        \/ calls[k].fn = "clear_cache"
        \/ calls[k].fn = "_set_cached_price" /\ calls[k].symbols = <<symbol>>}

\* what a lookup of the symbol at time now is to return after the first n calls
ExpectedPrice(symbol, n, now) ==
    IF WritesOf(symbol, n) = {} THEN None
    ELSE LET k == CHOOSE w \in WritesOf(symbol, n) : \A v \in WritesOf(symbol, n) : v <= w
         IN  IF /\ calls[k].fn = "_set_cached_price"
                /\ now < calls[k].time + 300
             THEN Some(calls[k].price)
             ELSE None

\* the last fetch_current_prices among the calls
LastFetch ==
    CHOOSE k \in 1..Len(calls) :
        /\ calls[k].fn = "fetch_current_prices"
        /\ \A j \in (k + 1)..Len(calls) : calls[j].fn # "fetch_current_prices"

\* C28: price cache TTL: after _set_cached_price(s, p) at time t,
\* _get_cached_price(s) returns p at every time before t + 300 seconds and None
\* at every time from t + 300 seconds on, unless the price is set again; after
\* clear_cache every lookup returns None until a price is set; and
\* fetch_current_prices performs no download and returns no warnings, and
\* returns the cached prices, when every requested symbol has a fresh cached
\* price.
C28_PriceCacheTtl ==
    /\ (result # None /\ result.fn = "_get_cached_price") =>
           result.value = ExpectedPrice(calls[Len(calls)].symbols[1], Len(calls), clock)
    /\ (result # None /\ result.fn = "fetch_current_prices") =>
           LET symbols == calls[LastFetch].symbols
               fresh == \A i \in 1..Len(symbols) :
                            ExpectedPrice(Upper(symbols[i]), LastFetch, clock) # None
           IN  (symbols # << >> /\ fresh) =>
                   /\ ~result.value.downloaded
                   /\ result.value.warnings = << >>
                   /\ DOMAIN result.value.prices
                          = {Upper(symbols[i]) : i \in 1..Len(symbols)}
                   /\ \A s \in DOMAIN result.value.prices :
                          Some(result.value.prices[s]) = ExpectedPrice(s, LastFetch, clock)
                   /\ Len(calls) = LastFetch

\* a lookup exactly 300 seconds after the price was set returns None
C28_Witness ==
    /\ result # None
    /\ result.fn = "_get_cached_price"
    /\ result.value = None
    /\ \E k \in 1..Len(calls) :
        /\ calls[k].fn = "_set_cached_price"
        /\ calls[k].symbols = calls[Len(calls)].symbols
        /\ clock = calls[k].time + 300
        /\ \A j \in (k + 1)..Len(calls) : calls[j].fn = "_get_cached_price"

====
